---- MODULE Spec2Model ----
(***************************************************************************)
(* The transaction pipeline of packages/application/src/radix.ts           *)
(* (__makeTransactionFromIntent): build -> confirm -> sign -> finalize ->  *)
(* submit -> status poll, as the state machine its RxJS operators form.    *)
(* One action per asynchronous notification (a node or signer result, a    *)
(* confirm() call, a poll tick); what a notification causes synchronously  *)
(* (tap, mergeMap, catchError, combineLatest, Subject.next) is part of     *)
(* the action.                                                             *)
(***************************************************************************)
EXTENDS Integers, Sequences, FiniteSets, TLC

\* ------------------------------------------------------------------ bounds
MaxActions == 2
MaxConfirms == 2
MaxStatusCalls == 2
MaxNotifications == 2
MaxInstructions == 2
MaxApis == 2
MaxTicks == 2

\* ------------------------------------------------------------- value sets
ResourceNames == {"xrd", "foo", "bar"}

\* an action of the intent; only a TOKEN_TRANSFER carries an rri
IntentActions ==
    [type : {"TOKEN_TRANSFER"}, rri : ResourceNames]
        \cup [type : {"STAKE_TOKENS", "UNSTAKE_TOKENS"}, rri : {"validator"}]

Intents == UNION {[1..n -> IntentActions] : n \in 0..MaxActions}

Transfer(name) == [type |-> "TOKEN_TRANSFER", rri |-> name]

Stake == [type |-> "STAKE_TOKENS", rri |-> "validator"]

\* one intent for each way signUnsignedTx can go: no non-xrd name, one, two
PipelineIntents ==
    {<<Transfer("xrd")>>,
     <<Transfer("foo"), Stake>>,
     <<Transfer("foo"), Transfer("bar")>>}

TxIDs == {"txA", "txB"}

Msgs == {"intent invalid", "timeout"}

Statuses == {"PENDING", "CONFIRMED", "FAILED"}

NoError == [category |-> "none", message |-> ""]

\* ------------------------------------------------------------------ state
VARIABLES
    userConfirmation,   \* options.userConfirmation: "skip" or "manual"
    intent,             \* the value transactionIntent$ emits
    events,             \* buffer of trackingSubject (a ReplaySubject)
    completionOut,      \* notifications completionSubject has sent
    apiCalls,           \* invocations so far of each node operation
    signArgs,           \* the hrp argument of each account.sign invocation
    buildPending,       \* api.buildTransaction in flight
    builtTx,            \* combineLatest (618) holds a built transaction
    confirms,           \* values pushed into userDidConfirmTransactionSubject
    confirmOffered,     \* the caller holds a {txToConfirm, confirm()} pair
    callerSubscribedAt, \* events tracked when the caller subscribed to the
                        \* confirmation channel; -1: not subscribed
    signedSrcLive,      \* source subscription of shareReplay(1) (618-631) alive
    signPending,        \* account.sign calls in flight
    finalizeLive,       \* mergeMap of finalizedTx$ subscribed (633-671)
    finalizePending,    \* api.finalizeTransaction calls in flight
    submitLive,         \* mergeMap/tap of the submit stage subscribed (673-718)
    submitPending,      \* api.submitSignedTransaction in flight, per txID
    pollState,          \* transactionStatus$: "notYet", "live" or "dead"
    tickSeen,           \* combineLatest (724) holds a tick
    pollTx,             \* combineLatest (724) holds this pending txID
    statusPending,      \* api.transactionStatus in flight, per txID
    lastStatus,         \* previous value of distinctUntilChanged (734)
    combined,           \* history: values combineLatest (724) has emitted
    facade,             \* one invocation of an operation of `api` (204-270)
    fwdCall,            \* the requests one invocation makes of the core API
    watch,              \* one use of radix.transactionStatus(txID, trigger)
    ledger,             \* one SIGN_TX session with the device
    apduCall,           \* one call of a builder of RadixAPDU
    observers,          \* subscribers of the `events` output (804)
    lateCompletion,     \* what a late subscriber of `completion` was sent
    completionCancelledAt, \* events tracked when the caller unsubscribed
                        \* from `completion` (803); -1: it has not
    faults,             \* history: what has failed so far, in order
    statusLog           \* history: the statuses the node has answered with,
                        \* a run of equal answers recorded once

vars == <<userConfirmation, intent, events, completionOut, apiCalls, signArgs,
          buildPending, builtTx, confirms, confirmOffered, signedSrcLive,
          signPending, finalizeLive, finalizePending, submitLive,
          submitPending, pollState, tickSeen, pollTx, statusPending,
          lastStatus, combined, facade, fwdCall, watch, ledger,
          apduCall,
          callerSubscribedAt,
          observers, completionCancelledAt, lateCompletion, faults,
          statusLog>>

\* the node facade
facadeVars == <<facade, fwdCall, watch>>

\* what is said to the device
deviceVars == <<ledger, apduCall>>

\* the state of one run of the transaction pipeline
pipelineVars ==
    <<userConfirmation, intent, events, completionOut, apiCalls, signArgs,
      buildPending, builtTx, confirms, confirmOffered, signedSrcLive,
      signPending, finalizeLive, finalizePending, submitLive, submitPending,
      pollState, tickSeen, pollTx, statusPending, lastStatus, combined,
      observers, completionCancelledAt, lateCompletion, faults, statusLog>>

config == <<userConfirmation, intent>>

\* a failure of a collaborator, or a FAILED status: where, and its message
Fault(stage, m) == [stage |-> stage, message |-> m]

NoneInFlight == [t \in TxIDs |-> 0]

Ops == {"buildTransaction", "finalizeTransaction",
        "submitSignedTransaction", "transactionStatus"}

Called(op) == [apiCalls EXCEPT ![op] = @ + 1]

\* ----------------------------------------------------------------- errors
\* errors.ts is not part of the sources at hand: a domain tag and the
\* underlying message, as the error taxonomy states
buildTxFromIntentErr(m) == [category |-> "BuildTxFromIntent", message |-> m]
finalizeTxErr(m) == [category |-> "FinalizeTx", message |-> m]
submitSignedTxErr(m) == [category |-> "SubmitSignedTx", message |-> m]

\* a plain Error(message), as thrown by a collaborator or by `new Error`
PlainError(m) == [category |-> "Error", message |-> m]

MultipleRRIsMsg ==
    "Error cannot sign transction with multiple non-XRD RRIs. Unsupported by Ledger app."

StatusFailedMsg(tx) == "API status of tx with id=" \o tx \o " returned 'FAILED'"

\* ------------------------------------------------------------ node facade
\* the operations of `api` (199-270)
FacadeOps ==
    {"networkId", "tokenBalancesForAddress", "transactionHistory",
     "nativeToken", "tokenInfo", "stakesForAddress", "unstakesForAddress",
     "validators", "lookupValidator", "lookupTransaction",
     "transactionStatus", "NetworkTransactionThroughput",
     "NetworkTransactionDemand", "buildTransaction", "finalizeTransaction",
     "submitSignedTransaction"}

\* a variant in which every operation uses the constructor of networkId
errorFnOfNetworkId(op) == "networkIdErr"

\* the error constructor each operation hands to fwdAPICall (199-270)
errorFn(op) ==
    CASE op = "networkId" -> "networkIdErr"
      [] op = "tokenBalancesForAddress" -> "tokenBalancesErr"
      [] op = "transactionHistory" -> "transactionHistoryErr"
      [] op = "nativeToken" -> "nativeTokenErr"
      [] op = "tokenInfo" -> "tokenInfoErr"
      [] op = "stakesForAddress" -> "stakesForAddressErr"
      [] op = "unstakesForAddress" -> "unstakesForAddressErr"
      [] op = "validators" -> "validatorsErr"
      [] op = "lookupValidator" -> "lookupValidatorErr"
      [] op = "lookupTransaction" -> "lookupTxErr"
      [] op = "transactionStatus" -> "txStatusErr"
      [] op = "NetworkTransactionThroughput" -> "NetworkTxThroughputErr"
      [] op = "NetworkTransactionDemand" -> "NetworkTxDemandErr"
      [] op = "buildTransaction" -> "buildTxFromIntentErr"
      [] op = "finalizeTransaction" -> "finalizeTxErr"
      [] op = "submitSignedTransaction" -> "submitSignedTxErr"

\* errors.ts is not part of the sources at hand: the domain tag each
\* constructor stands for, as the error taxonomy lists them
ErrorNotification(constructor, m) ==
    LET tag == CASE constructor = "networkIdErr" -> "NetworkId"
                 [] constructor = "tokenBalancesErr" -> "TokenBalances"
                 [] constructor = "transactionHistoryErr" -> "TransactionHistory"
                 [] constructor = "nativeTokenErr" -> "NativeToken"
                 [] constructor = "tokenInfoErr" -> "TokenInfo"
                 [] constructor = "stakesForAddressErr" -> "StakesForAddress"
                 [] constructor = "unstakesForAddressErr" -> "UnstakesForAddress"
                 [] constructor = "validatorsErr" -> "Validators"
                 [] constructor = "lookupValidatorErr" -> "LookupValidator"
                 [] constructor = "lookupTxErr" -> "LookupTransaction"
                 [] constructor = "txStatusErr" -> "TransactionStatus"
                 [] constructor = "NetworkTxThroughputErr" -> "NetworkTxThroughput"
                 [] constructor = "NetworkTxDemandErr" -> "NetworkTxDemand"
                 [] constructor = "buildTxFromIntentErr" -> "BuildTxFromIntent"
                 [] constructor = "finalizeTxErr" -> "FinalizeTx"
                 [] constructor = "submitSignedTxErr" -> "SubmitSignedTx"
    IN  [category |-> tag, message |-> m]

\* msgFromError of @radixdlt/util is not part of the sources at hand: the
\* message of the underlying error, verbatim
msgFromError(m) == m

\* what the underlying RadixCoreAPI call can notify
FacadeValues == {"v1", "v2"}

Notifications ==
    [kind : {"next"}, value : FacadeValues, error : {NoError}]
        \cup [kind : {"error"}, value : {"none"}, error : {PlainError(m) : m \in Msgs}]
        \cup [kind : {"complete"}, value : {"none"}, error : {NoError}]

\* what mergeMap (189) passes on of the calls it has made on the core API:
\* nothing follows an error; the completion of a call ends nothing, coreAPI$
\* stays open
Scripts ==
    {sc \in UNION {[1..n -> Notifications] : n \in 0..MaxNotifications} :
        \A k \in 1..(Len(sc) - 1) : sc[k].kind # "error"}

NoInvocation ==
    [op |-> "none", script |-> <<>>, pos |-> 0, out |-> <<>>, done |-> FALSE]

\* radix.transactionStatus(txID, trigger) (1062-1075) has not been called
NotWatching ==
    [txID |-> "none", ticks |-> 0, calls |-> 0, pending |-> 0,
     last |-> "none", answers |-> <<>>, out |-> <<>>, failed |-> FALSE]

\* the core APIs supplied so far are numbered 1..apis; requests lists the
\* APIs the invocation of op has made a request of
NotInvoked ==
    [op |-> "none", apis |-> 0, invoked |-> FALSE, requests |-> <<>>,
     done |-> FALSE]

\* ------------------------------------------------------------ APDU frames
\* a function of the builders either returns a value or throws
Returned(v) == [thrown |-> FALSE, value |-> v]

Thrown == [thrown |-> TRUE, value |-> <<>>]

\* radixCLA and RADIX_COIN_TYPE are imported from files that are not part of
\* the sources at hand; their values are the ones the frame format states
radixCLA == 170

RADIX_COIN_TYPE == 536

\* enum SignTxAPDUType (171-174)
SINGLE_RADIX_ENGINE_INSTRUCTION_APDU == 73

FIRST_METADATA_APDU == 77

RECURSIVE Concat(_)
\* Buffer.concat
Concat(buffers) ==
    IF Len(buffers) = 0 THEN <<>>
    ELSE IF Len(buffers) = 1 THEN buffers[1]
    ELSE LET half == Len(buffers) \div 2
         IN  Concat(SubSeq(buffers, 1, half))
                 \o Concat(SubSeq(buffers, half + 1, Len(buffers)))

\* writeUInt8 / writeUInt16BE / writeUInt32BE of a value below 2^31
WriteUIntBE(value, byteCount) ==
    [k \in 1..byteCount |-> (value \div (256 ^ (byteCount - k))) % 256]

\* a variant that writes the value without the hardening bit
WriteComponentUnhardened(c) == WriteUIntBE(c.value, 4)

\* a path component is its index below 2^31 and the hardening bit (2^31);
\* writeUInt32BE(pathComponent.index) (33)
WriteComponent(c) ==
    LET low == WriteUIntBE(c.value, 4)
    IN  [low EXCEPT ![1] = @ + (IF c.isHardened THEN 128 ELSE 0)]

hdPathComponentsToBuffer(hdPath) ==
    IF hdPath.coinType.value # RADIX_COIN_TYPE \/ ~hdPath.coinType.isHardened
       THEN Thrown
       ELSE Returned(Concat([k \in 1..Len(hdPath.pathComponents) |->
                                WriteComponent(hdPath.pathComponents[k])]))

hdPathToBuffer(hdPath) ==
    LET bipPathsData == hdPathComponentsToBuffer(hdPath)
    IN  IF bipPathsData.thrown THEN Thrown
        ELSE Returned(Concat(<<WriteUIntBE(Len(hdPath.pathComponents), 1),
                               bipPathsData.value>>))

\* `data` left undefined: the frame carries no bytes
NoData == <<>>

makeAPDU(input) ==
    [cla |-> radixCLA,
     ins |-> input.ins,
     p1 |-> IF "p1" \in DOMAIN input THEN input.p1 ELSE 0,
     p2 |-> IF "p2" \in DOMAIN input THEN input.p2 ELSE 0,
     data |-> IF "data" \in DOMAIN input THEN input.data ELSE NoData,
     requiredResponseStatusCodeFromDevice |->
         IF "requiredResponseStatusCodeFromDevice" \in DOMAIN input
            THEN input.requiredResponseStatusCodeFromDevice
            ELSE {"SW_OK"}]

getVersion == Returned(makeAPDU([ins |-> "GET_VERSION"]))

parameterValueForDisplayAddressOnLedger(input) ==
    IF input.displayAddress THEN 1 ELSE 0

\* a variant that ignores the caller's choice
displayECDHInputNever(input) == 0

parameterValueForDisplayECDHInputOnLedger(input) ==
    IF input.displayBIPAndPubKeyOtherParty THEN 1 ELSE 0

\* Buffer.writeUInt8 throws a RangeError for a value above 255
FitsUInt8(value) == value <= 255

getPublicKey(input) ==
    LET p1 == parameterValueForDisplayAddressOnLedger(input)
        data == hdPathToBuffer(input.path)
    IN  IF data.thrown THEN Thrown
        ELSE Returned(makeAPDU([ins |-> "GET_PUBLIC_KEY", p1 |-> p1,
                                data |-> data.value]))

\* PublicKeyT.asData: the SEC1 form asked for
asData(publicKey, compressed) ==
    IF compressed THEN publicKey.compressed ELSE publicKey.uncompressed

doKeyExchange(input) ==
    LET p1 == parameterValueForDisplayECDHInputOnLedger(input)
        publicKeyUncompressedData == asData(input.publicKeyOfOtherParty, FALSE)
        pathData == hdPathToBuffer(input.path)
    IN  IF ~FitsUInt8(Len(publicKeyUncompressedData)) THEN Thrown
        ELSE IF pathData.thrown THEN Thrown
        ELSE Returned(makeAPDU(
                [ins |-> "DO_KEY_EXCHANGE", p1 |-> p1,
                 data |-> Concat(<<pathData.value,
                                   WriteUIntBE(Len(publicKeyUncompressedData), 1),
                                   publicKeyUncompressedData>>)]))

doSignHash(input) ==
    LET p1 == parameterValueForDisplayAddressOnLedger(input)
        pathData == hdPathToBuffer(input.path)
        hashedMessageByteCount == Len(input.hashToSign)
    IN  IF pathData.thrown THEN Thrown
        ELSE IF ~FitsUInt8(hashedMessageByteCount) THEN Thrown
        ELSE Returned(makeAPDU(
                [ins |-> "DO_SIGN_HASH", p1 |-> p1,
                 data |-> Concat(<<pathData.value,
                                   WriteUIntBE(hashedMessageByteCount, 1),
                                   input.hashToSign>>)]))

getAppName == Returned(makeAPDU([ins |-> "GET_APP_NAME"]))

\* a string is the sequence of its UTF-16 code units, none of them a
\* surrogate; Buffer.from(string, 'utf8')
Utf8(units) ==
    Concat([k \in 1..Len(units) |->
        IF units[k] < 128 THEN <<units[k]>>
        ELSE IF units[k] < 2048
            THEN <<192 + (units[k] \div 64), 128 + (units[k] % 64)>>
            ELSE <<224 + (units[k] \div 4096),
                   128 + ((units[k] \div 64) % 64),
                   128 + (units[k] % 64)>>])

\* signTxInitialSetupPackage (176-221); the HRP is absent when undefined
signTxInitialSetupPackage(input) ==
    LET pathData == hdPathToBuffer(input.path)
        hasHrp == "nonNativeTokenRriHRP" \in DOMAIN input
        hrpLen == IF hasHrp THEN Len(input.nonNativeTokenRriHRP) ELSE 0
        nonNativeTokenHrpData ==
            IF hasHrp THEN Utf8(input.nonNativeTokenRriHRP) ELSE <<>>
    IN  IF pathData.thrown THEN Thrown
        ELSE IF hrpLen > 255 THEN Thrown
        ELSE Returned(makeAPDU(
                [ins |-> "DO_SIGN_TX",
                 p1 |-> FIRST_METADATA_APDU,
                 data |-> Concat(<<pathData.value,
                                   WriteUIntBE(input.txByteCount, 4),
                                   WriteUIntBE(input.numberOfInstructions, 2),
                                   WriteUIntBE(hrpLen, 1),
                                   nonNativeTokenHrpData>>)]))

\* a variant marking every instruction as the last
lastInstructionP2Always(isLastInstruction) == 1

\* p2 of an instruction frame (227)
lastInstructionP2(isLastInstruction) == IF isLastInstruction THEN 1 ELSE 0

\* signTxStream (223-234)
signTxStream(input) ==
    makeAPDU([ins |-> "DO_SIGN_TX",
              p1 |-> SINGLE_RADIX_ENGINE_INSTRUCTION_APDU,
              p2 |-> lastInstructionP2(input.isLastInstruction),
              data |-> input.instructionBytes])

\* ------------------------------------------------------ SIGN_TX sessions
Component(value, isHardened) == [value |-> value, isHardened |-> isHardened]

\* m/44'/536'/0'/0/0, and a path of another coin
RadixPath ==
    [coinType |-> Component(536, TRUE),
     pathComponents |-> <<Component(44, TRUE), Component(536, TRUE),
                          Component(0, TRUE), Component(0, FALSE),
                          Component(0, FALSE)>>]

OtherCoinPath ==
    [coinType |-> Component(0, TRUE),
     pathComponents |-> <<Component(44, TRUE), Component(0, TRUE),
                          Component(0, TRUE), Component(0, FALSE),
                          Component(0, FALSE)>>]

\* the byte strings of single instructions, and the transactions made of them
InstructionBytes == {<<1, 2>>, <<3>>}

InstructionStreams ==
    UNION {[1..n -> InstructionBytes] : n \in 0..MaxInstructions}

\* no HRP, "foo", and a one-unit string that takes two bytes in UTF-8
NoHrp == <<-1>>

\* a string of 256 units, one more than the length byte can hold
TooLongHrp == [k \in 1..256 |-> 97]

Hrps == {NoHrp, <<102, 111, 111>>, <<233>>, TooLongHrp}

TxByteCounts == {3, 256}

NoSession ==
    [path |-> RadixPath, txByteCount |-> 0, instructions |-> <<>>,
     hrp |-> NoHrp, sent |-> <<>>, state |-> "none"]

\* the input of signTX.initialSetup; an HRP that is not given is left out
SetupInput(path, txByteCount, numberOfInstructions, hrp) ==
    LET base == [path |-> path,
                 txByteCount |-> txByteCount,
                 numberOfInstructions |-> numberOfInstructions]
    IN  IF hrp = NoHrp THEN base
        ELSE [f \in DOMAIN base \cup {"nonNativeTokenRriHRP"} |->
                 IF f = "nonNativeTokenRriHRP" THEN hrp ELSE base[f]]

\* what the session hands to signTX.initialSetup
InitialPackage(session) ==
    SetupInput(session.path, session.txByteCount,
               Len(session.instructions), session.hrp)

\* ------------------------------------------------- calls of the builders
\* the coin type 536 without the hardening bit
UnhardenedCoinPath ==
    [coinType |-> Component(536, FALSE),
     pathComponents |-> <<Component(44, TRUE), Component(536, FALSE),
                          Component(0, TRUE), Component(0, FALSE),
                          Component(0, FALSE)>>]

Paths == {RadixPath, OtherCoinPath, UnhardenedCoinPath}

Bytes(n, b) == [k \in 1..n |-> b]

\* a hash of 32 bytes, and byte strings around the limit of one length byte
Hashes == {[k \in 1..32 |-> k], Bytes(255, 1), Bytes(256, 1)}

\* one key in its two SEC1 forms, 33 and 65 bytes
PublicKeys ==
    {[compressed |-> <<2>> \o [k \in 1..32 |-> k],
      uncompressed |-> <<4>> \o [k \in 1..64 |-> k]]}

\* the HRPs of the sessions, one of 255 letters, and one of 128 times the
\* two-byte letter
CallHrps == Hrps \cup {Bytes(255, 97), Bytes(128, 233)}

\* single instructions, one of them longer than a frame may carry
CallInstructionBytes == InstructionBytes \cup {Bytes(256, 0)}

NoInput == <<>>

Call(builder, input) ==
    [builder |-> builder, input |-> input, result |-> Thrown, done |-> FALSE]

NoCall == Call("none", NoInput)

Calls ==
    {Call("getVersion", NoInput), Call("getAppName", NoInput)}
    \cup {Call("getPublicKey", [path |-> p, displayAddress |-> d]) :
             p \in Paths, d \in BOOLEAN}
    \cup {Call("doKeyExchange",
                [path |-> p, publicKeyOfOtherParty |-> pk,
                 displayBIPAndPubKeyOtherParty |-> d]) :
             p \in Paths, pk \in PublicKeys, d \in BOOLEAN}
    \cup {Call("doSignHash",
                [path |-> p, displayAddress |-> d, hashToSign |-> h]) :
             p \in Paths, d \in BOOLEAN, h \in Hashes}
    \cup {Call("signTX.initialSetup", SetupInput(p, t, n, hrp)) :
             p \in Paths, t \in TxByteCounts, n \in 0..MaxInstructions,
             hrp \in CallHrps}
    \cup {Call("signTX.stream",
                [instructionBytes |-> b, isLastInstruction |-> l]) :
             b \in CallInstructionBytes, l \in BOOLEAN}

\* export const RadixAPDU (240-250)
RadixAPDU(builder, input) ==
    CASE builder = "getAppName" -> getAppName
      [] builder = "getVersion" -> getVersion
      [] builder = "getPublicKey" -> getPublicKey(input)
      [] builder = "doKeyExchange" -> doKeyExchange(input)
      [] builder = "doSignHash" -> doSignHash(input)
      [] builder = "signTX.initialSetup" -> signTxInitialSetupPackage(input)
      [] builder = "signTX.stream" -> Returned(signTxStream(input))

\* --------------------------------------------------------------- tracking
Event(type, tx, status) ==
    [eventUpdateType |-> type, txID |-> tx, status |-> status, error |-> NoError]

ErrorEvent(e, inStep) ==
    [eventUpdateType |-> inStep, txID |-> "none", status |-> "none", error |-> e]

track(evs, event) == Append(evs, event)

\* the subscribers of `events` that the model follows
Observers == {"first", "second"}

\* trackingSubject is a ReplaySubject without a limit (547): a new subscriber
\* is sent the whole buffer
replayLast(buffer) ==
    IF buffer = <<>> THEN <<>> ELSE <<buffer[Len(buffer)]>>

replay(buffer) == buffer

\* trackingSubject.next (550): besides entering the buffer, each event
\* tracked in a step is sent to every subscriber of that moment
trackingSubjectNext ==
    LET tracked == SubSeq(events', Len(events) + 1, Len(events'))
    IN  observers' =
            [o \in Observers |->
                IF observers[o].subscribed
                   THEN [observers[o] EXCEPT !.received = @ \o tracked]
                   ELSE observers[o]]

\* nobody has subscribed to `completion` late
NotSubscribed == [subscribed |-> FALSE, received |-> <<>>]

\* Subject.next / complete / error are ignored once the subject has stopped
SubjectNextComplete(out, tx) ==
    IF out # <<>> THEN out
    ELSE <<[kind |-> "next", txID |-> tx, error |-> NoError],
           [kind |-> "complete", txID |-> "none", error |-> NoError]>>

SubjectError(out, e) ==
    IF out # <<>> THEN out
    ELSE <<[kind |-> "error", txID |-> "none", error |-> e]>>

\* trackError: the error event on `events`, then completionSubject.error
trackErrorEvents(evs, e, inStep) == track(evs, ErrorEvent(e, inStep))
trackErrorCompletion(out, e) == SubjectError(out, e)

\* ---------------------------------------------------------------- signing
Range(s) == {s[k] : k \in DOMAIN s}

RECURSIVE Unique(_)
\* [...new Set(array)]: the distinct elements in order of first occurrence
Unique(s) ==
    IF s = <<>> THEN <<>>
    ELSE LET front == Unique(SubSeq(s, 1, Len(s) - 1))
             last == s[Len(s)]
         IN  IF last \in Range(front) THEN front ELSE Append(front, last)

IsTokenTransfer(a) == a.type = "TOKEN_TRANSFER"

IsNonXRD(name) == name # "xrd"

nonXRDHRPsOfRRIsInTx(i) ==
    LET transfers == SelectSeq(i, IsTokenTransfer)
        names == [k \in 1..Len(transfers) |-> transfers[k].rri]
    IN  SelectSeq(names, IsNonXRD)

uniquenonXRDHRPsOfRRIsInTx(i) == Unique(nonXRDHRPsOfRRIsInTx(i))

\* variants of the test: one that lets two names pass, one that never rejects
signRejectedAboveTwo(i) == Len(uniquenonXRDHRPsOfRRIsInTx(i)) > 2

signRejectedNever(i) == FALSE

\* the `length > 1` test that rejects the transaction before account.sign
signRejected(i) == Len(uniquenonXRDHRPsOfRRIsInTx(i)) > 1

nonXRDHrp(i) ==
    IF Len(uniquenonXRDHRPsOfRRIsInTx(i)) = 1
        THEN uniquenonXRDHRPsOfRRIsInTx(i)[1]
        ELSE "undefined"

\* the inStep of the catchError that receives an error of the signing stage:
\* signedTransaction$ has no catchError of its own, the one of finalizedTx$
\* (648-661) catches it
signErrorStep == "FINALIZED"

\* --------------------------------------------------- synchronous cascades
\* The signing stage (mergeMap 629) errors with e, the events so far being
\* evs: the source of shareReplay is torn down, and the error reaches the
\* catchError of finalizedTx$ when that is still subscribed.
SignStageError(evs, e) ==
    /\ signedSrcLive' = FALSE
    /\ signPending' = 0
    /\ IF finalizeLive
          THEN /\ events' = trackErrorEvents(evs, e, signErrorStep)
               /\ completionOut' = trackErrorCompletion(completionOut, e)
               /\ finalizeLive' = FALSE
               /\ finalizePending' = 0
          ELSE /\ events' = evs
               /\ UNCHANGED <<completionOut, finalizeLive, finalizePending>>

\* a variant that does not wait for userDidConfirmTransactionSubject
combineLatestEmitsOnBuilt(hasBuilt, nConfirms) == hasBuilt

\* whether combineLatest([builtTransaction$, userDidConfirmTransactionSubject])
\* emits when one of its sources has just emitted
combineLatestEmits(hasBuilt, nConfirms) == hasBuilt /\ nConfirms > 0

\* combineLatest (618) emits [builtTx, 0]: tap CONFIRMED, then signUnsignedTx
CombinedEmits(evs) ==
    LET evs1 == track(evs, Event("CONFIRMED", "none", "none"))
    IN  IF signRejected(intent)
           THEN /\ SignStageError(evs1, PlainError(MultipleRRIsMsg))
                /\ faults' = Append(faults, Fault("sign", MultipleRRIsMsg))
                /\ UNCHANGED signArgs
           ELSE /\ events' = evs1
                /\ signArgs' = Append(signArgs, nonXRDHrp(intent))
                /\ signPending' = signPending + 1
                /\ UNCHANGED <<completionOut, signedSrcLive, finalizeLive,
                               finalizePending, faults>>

\* what CombinedEmits assigns
signStageVars == <<events, completionOut, signArgs, signPending,
                   signedSrcLive, finalizeLive, finalizePending, faults>>

\* the subscribers of transactionStatus$: the tracker (749), the CONFIRMED
\* watcher (771) and the FAILED watcher (790)
PollingSubscribers == 3

\* without share() every subscriber has a subscription of its own to the
\* source
shareOff(subscribers) == subscribers

\* share() (735): the subscriptions to the source, combineLatest and mergeMap
\* (724-734), that serve the given number of subscribers
share(subscribers) == IF subscribers > 0 THEN 1 ELSE 0

\* a value of combineLatest([pollTxStatusTrigger, pendingTXSubject]) (724):
\* mergeMap asks the node for the status of pendingTx.txID
StatusRequested(tx, calls) ==
    LET n == share(PollingSubscribers)
    IN  /\ statusPending' = [statusPending EXCEPT ![tx] = @ + n]
        /\ apiCalls' = [calls EXCEPT !["transactionStatus"] = @ + n]
        /\ combined' = combined + 1

\* txSubs.unsubscribe(): every subscription added to txSubs is closed; the
\* source subscription of shareReplay(1) is not among them
txSubsUnsubscribe ==
    /\ pollState' = "dead"
    /\ statusPending' = NoneInFlight
    /\ finalizeLive' = FALSE
    /\ finalizePending' = 0
    /\ submitLive' = FALSE
    /\ submitPending' = NoneInFlight

\* ------------------------------------------------------------------- Init
InitPipeline ==
    /\ events = <<>>
    /\ completionOut = <<>>
    /\ apiCalls = [op \in Ops |-> 0]
    /\ signArgs = <<>>
    /\ buildPending = FALSE
    /\ builtTx = FALSE
    /\ confirms = 0
    /\ confirmOffered = FALSE
    /\ signedSrcLive = TRUE
    /\ signPending = 0
    /\ finalizeLive = TRUE
    /\ finalizePending = 0
    /\ submitLive = TRUE
    /\ submitPending = NoneInFlight
    /\ pollState = "notYet"
    /\ tickSeen = FALSE
    /\ pollTx = "none"
    /\ statusPending = NoneInFlight
    /\ lastStatus = "none"
    /\ faults = <<>>
    /\ statusLog = <<>>
    /\ combined = 0
    /\ lateCompletion = NotSubscribed
    /\ completionCancelledAt = -1
    /\ observers = [o \in Observers |->
                       [subscribed |-> FALSE, replayed |-> 0, received |-> <<>>]]

Init ==
    /\ userConfirmation \in {"skip", "manual"}
    /\ intent \in PipelineIntents
    /\ InitPipeline
    /\ facade = NoInvocation
    /\ fwdCall = NotInvoked
    /\ watch = NotWatching
    /\ ledger = NoSession
    /\ apduCall = NoCall
    /\ callerSubscribedAt = 0

\* ------------------------------------------------------------ build stage
\* transactionIntent$ emits the intent: switchMap tracks INITIATED and calls
\* api.buildTransaction (570-583)
IntentEmitted ==
    /\ events = <<>>
    /\ events' = track(events, Event("INITIATED", "none", "none"))
    /\ apiCalls' = Called("buildTransaction")
    /\ buildPending' = TRUE
    /\ UNCHANGED <<faults, config, deviceVars, facadeVars, combined,
                   completionCancelledAt, lateCompletion, callerSubscribedAt,
                   statusLog, completionOut, signArgs, builtTx, confirms,
                   confirmOffered, signedSrcLive, signPending, finalizeLive,
                   finalizePending, submitLive, submitPending, pollState,
                   tickSeen, pollTx, statusPending, lastStatus>>
    /\ trackingSubjectNext

\* a variant reporting the build failure under the following phase
buildErrorStepAsked == "ASKED_FOR_CONFIRMATION"

\* the inStep of the catchError of builtTransaction$ (592-595)
buildErrorStep == "BUILT_FROM_INTENT"

\* transactionIntent$ errors (the intent could not be made): the catchError
\* of builtTransaction$ (584-597) reports it and ends the stream
IntentFailed(m) ==
    /\ events = <<>>
    /\ events' = trackErrorEvents(events, PlainError(m), buildErrorStep)
    /\ completionOut' = trackErrorCompletion(completionOut, PlainError(m))
    /\ faults' = Append(faults, Fault("intent", m))
    /\ UNCHANGED <<config, deviceVars, facadeVars, combined,
                   completionCancelledAt, lateCompletion, callerSubscribedAt,
                   statusLog, apiCalls, signArgs, buildPending, builtTx,
                   confirms, confirmOffered, signedSrcLive, signPending,
                   finalizeLive, finalizePending, submitLive, submitPending,
                   pollState, tickSeen, pollTx, statusPending, lastStatus>>
    /\ trackingSubjectNext

\* a variant in which the pair is never handed to the caller's channel
pairPushedNever(scheme) == FALSE

\* with a manual confirmation the {txToConfirm, confirm()} pair is pushed
\* into the caller's channel when the built transaction is announced (525-545)
pairPushed(scheme) == scheme = "manual"

\* the caller's channel, options.userConfirmation, is declared outside the
\* sources at hand; as the rendezvous is described, it replays what was
\* pushed to a later subscriber
channelReplays(pushed) == pushed

\* the number of confirmations signalled while the built transaction is
\* handed to askUserToConfirmSubject (513-545): one with 'skip'; with a manual
\* confirmation the caller's handler may call confirm() at once
confirmsOnAsk(scheme, n, inHandler) ==
    IF scheme = "skip" THEN n + 1
    ELSE IF inHandler THEN n + 1 ELSE n

\* api.buildTransaction answers: the two taps (598-615), then combineLatest
BuildSucceeded(inHandler) ==
    /\ buildPending
    /\ inHandler => (userConfirmation = "manual" /\ callerSubscribedAt >= 0)
    /\ buildPending' = FALSE
    /\ builtTx' = TRUE
    /\ confirmOffered' = (pairPushed(userConfirmation) /\ callerSubscribedAt >= 0)
    /\ confirms' = confirmsOnAsk(userConfirmation, confirms, inHandler)
    /\ LET evs1 == track(events, Event("BUILT_FROM_INTENT", "none", "none"))
           evs2 == track(evs1, Event("ASKED_FOR_CONFIRMATION", "none", "none"))
       IN  IF combineLatestEmits(TRUE, confirms')
              THEN CombinedEmits(evs2)
              ELSE /\ events' = evs2
                   /\ UNCHANGED <<completionOut, signArgs, signPending,
                                  signedSrcLive, finalizeLive, finalizePending,
                                  faults>>
    /\ UNCHANGED <<config, deviceVars, facadeVars, combined,
                   completionCancelledAt, lateCompletion, callerSubscribedAt,
                   statusLog, apiCalls, submitLive, submitPending, pollState,
                   tickSeen, pollTx, statusPending, lastStatus>>
    /\ trackingSubjectNext

\* api.buildTransaction fails with message m: fwdAPICall decorates the error
\* (192-196), catchError (584-597) reports it and returns EMPTY
BuildFailed(m) ==
    /\ buildPending
    /\ buildPending' = FALSE
    /\ events' = trackErrorEvents(events, buildTxFromIntentErr(m),
                                  buildErrorStep)
    /\ completionOut' = trackErrorCompletion(completionOut,
                                             buildTxFromIntentErr(m))
    /\ faults' = Append(faults, Fault("build_transaction", m))
    /\ UNCHANGED <<config, deviceVars, facadeVars, combined,
                   completionCancelledAt, lateCompletion, callerSubscribedAt,
                   statusLog, apiCalls, signArgs, builtTx, confirms,
                   confirmOffered, signedSrcLive, signPending, finalizeLive,
                   finalizePending, submitLive, submitPending, pollState,
                   tickSeen, pollTx, statusPending, lastStatus>>
    /\ trackingSubjectNext

\* ----------------------------------------------------------- confirmation
\* the caller invokes confirm() of the pair it holds (540), after
\* __makeTransactionFromIntent has returned
Confirm ==
    /\ confirmOffered
    /\ pollState # "notYet"
    /\ confirms < MaxConfirms
    /\ confirms' = confirms + 1
    /\ IF signedSrcLive /\ combineLatestEmits(builtTx, confirms')
          THEN CombinedEmits(events)
          ELSE UNCHANGED signStageVars
    /\ UNCHANGED <<config, deviceVars, facadeVars, combined,
                   completionCancelledAt, lateCompletion, callerSubscribedAt,
                   statusLog, apiCalls, buildPending, builtTx, confirmOffered,
                   submitLive, submitPending, pollState, tickSeen, pollTx,
                   statusPending, lastStatus>>
    /\ trackingSubjectNext

\* ---------------------------------------------------------- signing stage
\* account.sign answers with a signature: shareReplay forwards the signed
\* transaction to finalizedTx$, which tracks SIGNED and calls the node (634-646)
SignSucceeded ==
    /\ signPending > 0
    /\ signPending' = signPending - 1
    /\ IF finalizeLive
          THEN /\ events' = track(events, Event("SIGNED", "none", "none"))
               /\ apiCalls' = Called("finalizeTransaction")
               /\ finalizePending' = finalizePending + 1
          ELSE UNCHANGED <<events, apiCalls, finalizePending>>
    /\ UNCHANGED <<faults, config, deviceVars, facadeVars, combined,
                   completionCancelledAt, lateCompletion, callerSubscribedAt,
                   statusLog, completionOut, signArgs, buildPending, builtTx,
                   confirms, confirmOffered, signedSrcLive, finalizeLive,
                   submitLive, submitPending, pollState, tickSeen, pollTx,
                   statusPending, lastStatus>>
    /\ trackingSubjectNext

\* account.sign fails with message m
SignFailed(m) ==
    /\ signPending > 0
    /\ SignStageError(events, PlainError(m))
    /\ faults' = Append(faults, Fault("sign", m))
    /\ UNCHANGED <<config, deviceVars, facadeVars, combined,
                   completionCancelledAt, lateCompletion, callerSubscribedAt,
                   statusLog, apiCalls, signArgs, buildPending, builtTx,
                   confirms, confirmOffered, submitLive, submitPending,
                   pollState, tickSeen, pollTx, statusPending, lastStatus>>
    /\ trackingSubjectNext

\* --------------------------------------------------------- finalize stage
\* the node derives the txID from the transaction: finalizing the same signed
\* transaction again yields the txID it yielded before
nodeAssigns(evs, tx) ==
    \A k \in DOMAIN evs :
        evs[k].eventUpdateType = "FINALIZED" /\ evs[k].error = NoError
            => evs[k].txID = tx

\* api.finalizeTransaction answers with the txID: tap FINALIZED (662-670),
\* then the submit stage calls api.submitSignedTransaction (676-681)
FinalizeSucceeded(tx) ==
    /\ finalizePending > 0
    /\ nodeAssigns(events, tx)
    /\ finalizePending' = finalizePending - 1
    /\ events' = track(events, Event("FINALIZED", tx, "none"))
    /\ apiCalls' = Called("submitSignedTransaction")
    /\ submitPending' = [submitPending EXCEPT ![tx] = @ + 1]
    /\ UNCHANGED <<faults, config, deviceVars, facadeVars, combined,
                   completionCancelledAt, lateCompletion, callerSubscribedAt,
                   statusLog, completionOut, signArgs, buildPending, builtTx,
                   confirms, confirmOffered, signedSrcLive, signPending,
                   finalizeLive, submitLive, pollState, tickSeen, pollTx,
                   statusPending, lastStatus>>
    /\ trackingSubjectNext

\* api.finalizeTransaction fails: catchError (648-661) reports it, returns
\* EMPTY and unsubscribes from signedTransaction$
FinalizeFailed(m) ==
    /\ finalizePending > 0
    /\ finalizeLive' = FALSE
    /\ finalizePending' = 0
    /\ events' = trackErrorEvents(events, finalizeTxErr(m), "FINALIZED")
    /\ completionOut' = trackErrorCompletion(completionOut, finalizeTxErr(m))
    /\ faults' = Append(faults, Fault("finalize_transaction", m))
    /\ UNCHANGED <<config, deviceVars, facadeVars, combined,
                   completionCancelledAt, lateCompletion, callerSubscribedAt,
                   statusLog, apiCalls, signArgs, buildPending, builtTx,
                   confirms, confirmOffered, signedSrcLive, signPending,
                   submitLive, submitPending, pollState, tickSeen, pollTx,
                   statusPending, lastStatus>>
    /\ trackingSubjectNext

\* ----------------------------------------------------------- submit stage
\* pendingTXSubject is a plain Subject: only a subscribed combineLatest (724)
\* receives the pending transaction
pendingTxDelivered(state) == state = "live"

\* api.submitSignedTransaction answers: tap tracks SUBMITTED and pushes the
\* pending transaction to pendingTXSubject (696-707); combineLatest (724)
\* emits at once when it already holds a tick
SubmitSucceeded(tx) ==
    /\ submitPending[tx] > 0
    /\ submitPending' = [submitPending EXCEPT ![tx] = @ - 1]
    /\ events' = track(events, Event("SUBMITTED", tx, "none"))
    /\ IF pendingTxDelivered(pollState)
          THEN /\ pollTx' = tx
               /\ IF tickSeen
                     THEN StatusRequested(tx, apiCalls)
                     ELSE UNCHANGED <<statusPending, apiCalls, combined>>
          ELSE UNCHANGED <<pollTx, statusPending, apiCalls, combined>>
    /\ UNCHANGED <<faults, config, deviceVars, facadeVars,
                   completionCancelledAt, lateCompletion, callerSubscribedAt,
                   statusLog, completionOut, signArgs, buildPending, builtTx,
                   confirms, confirmOffered, signedSrcLive, signPending,
                   finalizeLive, finalizePending, submitLive, pollState,
                   tickSeen, lastStatus>>
    /\ trackingSubjectNext

\* api.submitSignedTransaction fails: catchError (682-695) reports it,
\* returns EMPTY and unsubscribes from finalizedTx$
SubmitFailed(tx, m) ==
    /\ submitPending[tx] > 0
    /\ submitLive' = FALSE
    /\ submitPending' = NoneInFlight
    /\ finalizeLive' = FALSE
    /\ finalizePending' = 0
    /\ events' = trackErrorEvents(events, submitSignedTxErr(m), "SUBMITTED")
    /\ completionOut' = trackErrorCompletion(completionOut,
                                             submitSignedTxErr(m))
    /\ faults' = Append(faults, Fault("submit_signed_transaction", m))
    /\ UNCHANGED <<config, deviceVars, facadeVars, combined,
                   completionCancelledAt, lateCompletion, callerSubscribedAt,
                   statusLog, apiCalls, signArgs, buildPending, builtTx,
                   confirms, confirmOffered, signedSrcLive, signPending,
                   pollState, tickSeen, pollTx, statusPending, lastStatus>>
    /\ trackingSubjectNext

\* ---------------------------------------------------------------- polling
\* the three subscriptions to transactionStatus$ (748-800) are made, the
\* last statements of __makeTransactionFromIntent; whatever the stages above
\* did before this step they did synchronously, inside subscribe() (717)
SubscribePolling ==
    /\ pollState = "notYet"
    /\ pollState' = "live"
    /\ UNCHANGED <<faults, config, deviceVars, facadeVars, combined,
                   completionCancelledAt, lateCompletion, callerSubscribedAt,
                   statusLog, events, completionOut, apiCalls, signArgs,
                   buildPending, builtTx, confirms, confirmOffered,
                   signedSrcLive, signPending, finalizeLive, finalizePending,
                   submitLive, submitPending, tickSeen, pollTx, statusPending,
                   lastStatus>>
    /\ trackingSubjectNext

\* a variant in which a tick alone makes combineLatest emit
holdsPendingTxAlways(tx) == TRUE

\* combineLatest (724) emits only once pendingTXSubject has given it a value
holdsPendingTx(tx) == tx # "none"

\* pollTxStatusTrigger emits: combineLatest (724) emits when it holds a
\* pending transaction
Tick(maxCalls) ==
    /\ pollState = "live"
    /\ tickSeen' = TRUE
    /\ IF holdsPendingTx(pollTx)
          THEN /\ apiCalls["transactionStatus"] < maxCalls
               /\ StatusRequested(pollTx, apiCalls)
          ELSE UNCHANGED <<statusPending, apiCalls, combined>>
    /\ UNCHANGED <<faults, config, deviceVars, facadeVars,
                   completionCancelledAt, lateCompletion, callerSubscribedAt,
                   statusLog, events, completionOut, signArgs, buildPending,
                   builtTx, confirms, confirmOffered, signedSrcLive,
                   signPending, finalizeLive, finalizePending, submitLive,
                   submitPending, pollState, pollTx, lastStatus>>
    /\ trackingSubjectNext

\* a variant that lets every status pass
distinctUntilChangedOff(prev, cur) == TRUE

\* distinctUntilChanged((prev, cur) => prev.status === cur.status)
distinctUntilChanged(prev, cur) == prev # cur

\* skipWhile(status !== X), take(1) on a stream that is torn down with the
\* first match: the watcher fires on the first X
watcherFires(status, wanted) == status = wanted

\* a request of transaction_status has failed
StatusRequestHasFailed ==
    \E k \in DOMAIN faults : faults[k].stage = "transaction_status"

\* the history of answers: an answer equal to the one before it starts no
\* new entry
AppendDistinct(log, status) ==
    IF log # <<>> /\ log[Len(log)] = status THEN log ELSE Append(log, status)

\* api.transactionStatus answers {txID, status}: the tracker (749-760), then
\* the CONFIRMED watcher (770-787), then the FAILED watcher (789-800)
StatusReceived(tx, status) ==
    /\ statusPending[tx] > 0
    /\ statusLog' = AppendDistinct(statusLog, status)
    /\ IF ~distinctUntilChanged(lastStatus, status)
          THEN /\ statusPending' = [statusPending EXCEPT ![tx] = @ - 1]
               /\ UNCHANGED <<events, completionOut, lastStatus, pollState,
                              finalizeLive, finalizePending, submitLive,
                              submitPending, faults>>
          ELSE /\ lastStatus' = status
               /\ LET evs1 == track(events, Event(
                                  "UPDATE_OF_STATUS_OF_PENDING_TX", tx, status))
                  IN  IF watcherFires(status, "CONFIRMED")
                         THEN /\ events' = track(evs1,
                                               Event("COMPLETED", tx, status))
                              /\ completionOut' =
                                     SubjectNextComplete(completionOut, tx)
                              /\ txSubsUnsubscribe
                              /\ UNCHANGED faults
                         ELSE IF watcherFires(status, "FAILED")
                         THEN /\ events' = trackErrorEvents(evs1,
                                     PlainError(StatusFailedMsg(tx)),
                                     "UPDATE_OF_STATUS_OF_PENDING_TX")
                              /\ completionOut' = trackErrorCompletion(
                                     completionOut, PlainError(StatusFailedMsg(tx)))
                              /\ txSubsUnsubscribe
                              /\ faults' = Append(faults,
                                     Fault("status_FAILED", StatusFailedMsg(tx)))
                         ELSE /\ events' = evs1
                              /\ statusPending' =
                                     [statusPending EXCEPT ![tx] = @ - 1]
                              /\ UNCHANGED <<completionOut, pollState,
                                             finalizeLive, finalizePending,
                                             submitLive, submitPending, faults>>
    /\ UNCHANGED <<config, deviceVars, facadeVars, combined,
                   completionCancelledAt, lateCompletion, callerSubscribedAt,
                   apiCalls, signArgs, buildPending, builtTx, confirms,
                   confirmOffered, signedSrcLive, signPending, tickSeen,
                   pollTx>>
    /\ trackingSubjectNext

\* api.transactionStatus fails: the error ends transactionStatus$; the
\* tracker's error handler logs it (761-766), the watchers have none
StatusRequestFailed(tx, m) ==
    /\ statusPending[tx] > 0
    /\ pollState' = "dead"
    /\ statusPending' = NoneInFlight
    /\ faults' = Append(faults, Fault("transaction_status", m))
    /\ UNCHANGED <<config, deviceVars, facadeVars, combined,
                   completionCancelledAt, lateCompletion, callerSubscribedAt,
                   statusLog, events, completionOut, apiCalls, signArgs,
                   buildPending, builtTx, confirms, confirmOffered,
                   signedSrcLive, signPending, finalizeLive, finalizePending,
                   submitLive, submitPending, tickSeen, pollTx, lastStatus>>
    /\ trackingSubjectNext

\* ---------------------------------------------------------- subscribers
\* the caller subscribes to the confirmation channel it passed as
\* options.userConfirmation, after __makeTransactionFromIntent has returned
CallerSubscribes ==
    /\ userConfirmation = "manual"
    /\ callerSubscribedAt = -1
    /\ pollState # "notYet"
    /\ callerSubscribedAt' = Len(events)
    /\ confirmOffered' =
           channelReplays(builtTx /\ pairPushed(userConfirmation))
    /\ UNCHANGED <<config, deviceVars, facadeVars, combined,
                   completionCancelledAt, lateCompletion, statusLog, faults,
                   observers, events, completionOut, apiCalls, signArgs,
                   buildPending, builtTx, confirms, signedSrcLive,
                   signPending, finalizeLive, finalizePending, submitLive,
                   submitPending, pollState, tickSeen, pollTx, statusPending,
                   lastStatus>>

\* Subject.subscribe on completionSubject (553) once it has stopped: a subject
\* that failed sends the error, one that completed sends complete; the value
\* it passed on earlier is not kept
SubjectSubscribe(out) ==
    SelectSeq(out, LAMBDA n : n.kind # "next")

\* a caller subscribes to `completion` (803) after it has been settled
SubscribeCompletionLate ==
    /\ completionOut # <<>>
    /\ ~lateCompletion.subscribed
    /\ lateCompletion' = [subscribed |-> TRUE,
                          received |-> SubjectSubscribe(completionOut)]
    /\ UNCHANGED <<config, deviceVars, facadeVars, combined,
                   callerSubscribedAt, completionCancelledAt, statusLog,
                   faults, observers, events, completionOut, apiCalls,
                   signArgs, buildPending, builtTx, confirms, confirmOffered,
                   signedSrcLive, signPending, finalizeLive, finalizePending,
                   submitLive, submitPending, pollState, tickSeen, pollTx,
                   statusPending, lastStatus>>

\* a caller subscribes to `events` (804) and is sent the buffer
SubscribeEvents(o) ==
    /\ ~observers[o].subscribed
    /\ observers' = [observers EXCEPT ![o] =
                        [subscribed |-> TRUE,
                         replayed |-> Len(replay(events)),
                         received |-> replay(events)]]
    /\ UNCHANGED <<config, deviceVars, facadeVars, combined,
                   completionCancelledAt, lateCompletion, callerSubscribedAt,
                   statusLog, faults, events, completionOut, apiCalls,
                   signArgs, buildPending, builtTx, confirms, confirmOffered,
                   signedSrcLive, signPending, finalizeLive, finalizePending,
                   submitLive, submitPending, pollState, tickSeen, pollTx,
                   statusPending, lastStatus>>

\* the invoked operation of `api` is notified by the underlying call: take(1)
\* (190) passes the first value on and completes; catchError (192-196)
\* rethrows an error as errorFn(msgFromError(errors))
FacadeNotified ==
    /\ facade.op # "none"
    /\ ~facade.done
    /\ facade.pos < Len(facade.script)
    /\ LET n == facade.script[facade.pos + 1]
           passed ==
               CASE n.kind = "next" ->
                        <<n, [kind |-> "complete", value |-> "none",
                              error |-> NoError]>>
                 [] n.kind = "error" ->
                        <<[kind |-> "error", value |-> "none",
                           error |-> ErrorNotification(errorFn(facade.op),
                                        msgFromError(n.error.message))]>>
                 [] n.kind = "complete" -> <<>>
       IN  facade' = [facade EXCEPT !.pos = @ + 1,
                                    !.out = @ \o passed,
                                    !.done = (passed # <<>>)]
    /\ UNCHANGED <<config, fwdCall, watch, deviceVars, callerSubscribedAt,
                   completionCancelledAt, lateCompletion, statusLog, combined,
                   faults, observers, events, completionOut, apiCalls,
                   signArgs, buildPending, builtTx, confirms, confirmOffered,
                   signedSrcLive, signPending, finalizeLive, finalizePending,
                   submitLive, submitPending, pollState, tickSeen, pollTx,
                   statusPending, lastStatus>>

\* withNodeConnection / connect (nodeSubject.next, 427) or __withAPI
\* (coreAPISubject.next, 982) supplies a core API: coreAPI$ (180-182) emits
\* it, and the mergeMap (186) of an invocation that is still subscribed makes
\* the call on it
CoreAPISupplied ==
    /\ fwdCall.apis < MaxApis
    /\ fwdCall' =
          [fwdCall EXCEPT
             !.apis = @ + 1,
             !.requests = IF fwdCall.invoked /\ ~fwdCall.done
                             THEN Append(@, fwdCall.apis + 1) ELSE @]
    /\ UNCHANGED <<pipelineVars, facade, watch, deviceVars,
                   callerSubscribedAt>>

\* shareReplay(1) (181): a new subscriber is sent the latest value, if any
shareReplay(apis) == IF apis > 0 THEN <<apis>> ELSE <<>>

\* the operation is invoked and its result subscribed to: coreAPI$ replays
\* the latest core API to mergeMap (184-186)
Invoked ==
    /\ ~fwdCall.invoked
    /\ fwdCall' = [fwdCall EXCEPT !.invoked = TRUE,
                                  !.requests = shareReplay(fwdCall.apis)]
    /\ UNCHANGED <<pipelineVars, facade, watch, deviceVars,
                   callerSubscribedAt>>

\* a request is answered: take(1) (190) completes the invocation and
\* unsubscribes from coreAPI$
RequestAnswered ==
    /\ fwdCall.invoked
    /\ ~fwdCall.done
    /\ fwdCall.requests # <<>>
    /\ fwdCall' = [fwdCall EXCEPT !.done = TRUE]
    /\ UNCHANGED <<pipelineVars, facade, watch, deviceVars,
                   callerSubscribedAt>>

\* filter(({ txID }) => txID.equals(txID)) (1069): the parameter txID of the
\* arrow function is the response's and hides the requested one
filterTxID(response, requested) ==
    LET txID == response.txID IN txID = txID

\* the trigger of radix.transactionStatus(txID, trigger) emits: mergeMap
\* (1067) asks the node for the status of txID
WatchTick ==
    /\ watch.txID # "none"
    /\ ~watch.failed
    /\ watch.ticks < MaxTicks
    /\ watch' = [watch EXCEPT !.ticks = @ + 1,
                              !.calls = @ + 1,
                              !.pending = @ + 1]
    /\ UNCHANGED <<pipelineVars, facade, fwdCall, deviceVars,
                   callerSubscribedAt>>

\* the node answers one of the requests with {txID, status}:
\* distinctUntilChanged (1068), then filter (1069)
WatchAnswered(response) ==
    /\ watch.pending > 0
    /\ ~watch.failed
    /\ LET passes == /\ distinctUntilChanged(watch.last, response.status)
                      /\ filterTxID(response, watch.txID)
       IN  watch' =
               [watch EXCEPT
                  !.pending = @ - 1,
                  !.answers = Append(@, response),
                  !.last = response.status,
                  !.out = IF passes THEN Append(@, response) ELSE @]
    /\ UNCHANGED <<pipelineVars, facade, fwdCall, deviceVars,
                   callerSubscribedAt>>

\* one of the requests fails: the error ends the stream and mergeMap drops
\* the other requests
WatchFailed ==
    /\ watch.pending > 0
    /\ ~watch.failed
    /\ watch' = [watch EXCEPT !.pending = 0, !.failed = TRUE]
    /\ UNCHANGED <<pipelineVars, facade, fwdCall, deviceVars,
                   callerSubscribedAt>>

\* the caller unsubscribes from `completion`, completionSubject.asObservable()
\* (803): its observer leaves completionSubject (553); txSubs is not involved
CancelCompletion ==
    /\ completionCancelledAt = -1
    /\ pollState # "notYet"
    /\ completionCancelledAt' = Len(events)
    /\ UNCHANGED <<config, lateCompletion, deviceVars, facadeVars, combined,
                   callerSubscribedAt, statusLog, faults, observers, events,
                   completionOut, apiCalls, signArgs, buildPending, builtTx,
                   confirms, confirmOffered, signedSrcLive, signPending,
                   finalizeLive, finalizePending, submitLive, submitPending,
                   pollState, tickSeen, pollTx, statusPending, lastStatus>>

\* ------------------------------------------------------------------- Next
Next ==
    \/ IntentEmitted
    \/ \E m \in Msgs : IntentFailed(m)
    \/ \E inHandler \in BOOLEAN : BuildSucceeded(inHandler)
    \/ \E m \in Msgs : BuildFailed(m)
    \/ Confirm
    \/ SignSucceeded
    \/ \E m \in Msgs : SignFailed(m)
    \/ \E tx \in TxIDs : FinalizeSucceeded(tx)
    \/ \E m \in Msgs : FinalizeFailed(m)
    \/ \E tx \in TxIDs : SubmitSucceeded(tx)
    \/ \E tx \in TxIDs, m \in Msgs : SubmitFailed(tx, m)
    \/ SubscribePolling
    \/ Tick(MaxStatusCalls)
    \/ \E tx \in TxIDs, status \in Statuses : StatusReceived(tx, status)
    \/ \E tx \in TxIDs, m \in Msgs : StatusRequestFailed(tx, m)

Spec == Init /\ [][Next]_vars

\* ------------------------------------- polling, nothing fails before it
\* the pipeline with a caller who may call confirm() repeatedly and a node
\* that builds, finalizes and submits without failing: every pending
\* transaction reaches the polling loop, whose requests may fail
NextPolling ==
    \/ IntentEmitted
    \/ \E inHandler \in BOOLEAN : BuildSucceeded(inHandler)
    \/ Confirm
    \/ SignSucceeded
    \/ \E tx \in TxIDs : FinalizeSucceeded(tx)
    \/ \E tx \in TxIDs : SubmitSucceeded(tx)
    \/ SubscribePolling
    \/ Tick(MaxStatusCalls)
    \/ \E tx \in TxIDs, status \in Statuses : StatusReceived(tx, status)
    \/ \E tx \in TxIDs, m \in Msgs : StatusRequestFailed(tx, m)

SpecPolling == Init /\ [][NextPolling]_vars

\* ------------------------------------------- every intent, one confirm()
\* the pipeline for every intent of up to MaxActions actions, with a caller
\* who calls confirm() at most once
InitSign ==
    /\ userConfirmation \in {"skip", "manual"}
    /\ intent \in Intents
    /\ InitPipeline
    /\ facade = NoInvocation
    /\ fwdCall = NotInvoked
    /\ watch = NotWatching
    /\ ledger = NoSession
    /\ apduCall = NoCall
    /\ callerSubscribedAt = 0

FirstConfirm == confirms = 0 /\ Confirm

NextSign ==
    \/ IntentEmitted
    \/ \E m \in Msgs : IntentFailed(m)
    \/ \E inHandler \in BOOLEAN : BuildSucceeded(inHandler)
    \/ \E m \in Msgs : BuildFailed(m)
    \/ FirstConfirm
    \/ SignSucceeded
    \/ \E m \in Msgs : SignFailed(m)
    \/ \E tx \in TxIDs : FinalizeSucceeded(tx)
    \/ \E m \in Msgs : FinalizeFailed(m)
    \/ \E tx \in TxIDs : SubmitSucceeded(tx)
    \/ \E tx \in TxIDs, m \in Msgs : SubmitFailed(tx, m)
    \/ SubscribePolling
    \/ Tick(MaxStatusCalls)
    \/ \E tx \in TxIDs, status \in Statuses : StatusReceived(tx, status)
    \/ \E tx \in TxIDs, m \in Msgs : StatusRequestFailed(tx, m)

SpecSign == InitSign /\ [][NextSign]_vars

\* --------------------------------------------- subscribers of `events`
\* the pipeline with callers subscribing to `events` at any moment
NextEvents ==
    \/ NextSign
    \/ \E o \in Observers : SubscribeEvents(o)

SpecEvents == Init /\ [][NextEvents]_vars

\* ------------------------------------------------- the node facade alone
\* one invocation of one operation of `api`, for every operation and every
\* course of the underlying call; no transaction is being made
InitFacade ==
    /\ userConfirmation = "skip"
    /\ intent = <<>>
    /\ InitPipeline
    /\ callerSubscribedAt = 0
    /\ ledger = NoSession
    /\ apduCall = NoCall
    /\ fwdCall = NotInvoked
    /\ watch = NotWatching
    /\ facade \in [op : FacadeOps, script : Scripts, pos : {0},
                    out : {<<>>}, done : {FALSE}]

NextFacade == FacadeNotified

SpecFacade == InitFacade /\ [][NextFacade]_vars

\* ------------------------------------------- the facade and its core API
\* one invocation of an operation while core APIs are being supplied
InitConnect ==
    /\ userConfirmation = "skip"
    /\ intent = <<>>
    /\ InitPipeline
    /\ callerSubscribedAt = 0
    /\ facade = NoInvocation
    /\ ledger = NoSession
    /\ apduCall = NoCall
    /\ watch = NotWatching
    /\ fwdCall \in [op : FacadeOps, apis : {0}, invoked : {FALSE},
                     requests : {<<>>}, done : {FALSE}]

NextConnect ==
    \/ CoreAPISupplied
    \/ Invoked
    \/ RequestAnswered

SpecConnect == InitConnect /\ [][NextConnect]_vars

\* ----------------------------------------- radix.transactionStatus alone
\* one subscription to radix.transactionStatus(txID, trigger), with a node
\* that may answer about any transaction
InitWatch ==
    /\ userConfirmation = "skip"
    /\ intent = <<>>
    /\ InitPipeline
    /\ callerSubscribedAt = 0
    /\ facade = NoInvocation
    /\ fwdCall = NotInvoked
    /\ ledger = NoSession
    /\ apduCall = NoCall
    /\ \E tx \in TxIDs : watch = [NotWatching EXCEPT !.txID = tx]

NextWatch ==
    \/ WatchTick
    \/ \E tx \in TxIDs, status \in Statuses :
           WatchAnswered([txID |-> tx, status |-> status])
    \/ WatchFailed

SpecWatch == InitWatch /\ [][NextWatch]_vars

\* ------------------------------------------------ SIGN_TX streaming alone
\* Phase A: the metadata frame is built and sent; a builder that throws ends
\* the session before anything is sent
SendMetadata ==
    /\ ledger.state = "idle"
    /\ LET built == signTxInitialSetupPackage(InitialPackage(ledger))
       IN  ledger' =
             IF built.thrown THEN [ledger EXCEPT !.state = "failed"]
             ELSE [ledger EXCEPT
                     !.sent = <<built.value>>,
                     !.state = IF ledger.instructions = <<>>
                                  THEN "done" ELSE "streaming"]
    /\ UNCHANGED <<pipelineVars, facadeVars, callerSubscribedAt, apduCall>>

\* Phase B: the device accepted the previous frame, the next instruction of
\* the producer is framed and sent
SendInstruction ==
    /\ ledger.state = "streaming"
    /\ LET k == Len(ledger.sent)
           n == Len(ledger.instructions)
           frame == signTxStream([instructionBytes |-> ledger.instructions[k],
                                  isLastInstruction |-> k = n])
       IN  ledger' = [ledger EXCEPT
                        !.sent = Append(@, frame),
                        !.state = IF k = n THEN "done" ELSE "streaming"]
    /\ UNCHANGED <<pipelineVars, facadeVars, callerSubscribedAt, apduCall>>

\* the device answers a frame with another status word than SW_OK: the
\* session is over, nothing is sent again
DeviceRejects ==
    /\ ledger.state = "streaming"
    /\ ledger' = [ledger EXCEPT !.state = "failed"]
    /\ UNCHANGED <<pipelineVars, facadeVars, callerSubscribedAt, apduCall>>

\* ----------------------------------------------------- the builders alone
\* a builder of RadixAPDU is called and returns a frame or throws
BuilderCalled ==
    /\ apduCall.builder # "none"
    /\ ~apduCall.done
    /\ apduCall' =
          [apduCall EXCEPT !.result = RadixAPDU(apduCall.builder, apduCall.input),
                           !.done = TRUE]
    /\ UNCHANGED <<pipelineVars, facadeVars, callerSubscribedAt, ledger>>

InitAPDU ==
    /\ userConfirmation = "skip"
    /\ intent = <<>>
    /\ InitPipeline
    /\ callerSubscribedAt = 0
    /\ facade = NoInvocation
    /\ fwdCall = NotInvoked
    /\ watch = NotWatching
    /\ ledger = NoSession
    /\ apduCall \in Calls

NextAPDU == BuilderCalled

SpecAPDU == InitAPDU /\ [][NextAPDU]_vars

InitSignTx ==
    /\ userConfirmation = "skip"
    /\ intent = <<>>
    /\ InitPipeline
    /\ callerSubscribedAt = 0
    /\ facade = NoInvocation
    /\ fwdCall = NotInvoked
    /\ watch = NotWatching
    /\ apduCall = NoCall
    /\ ledger \in [path : {RadixPath, OtherCoinPath},
                    txByteCount : TxByteCounts,
                    instructions : InstructionStreams,
                    hrp : Hrps, sent : {<<>>}, state : {"idle"}]

NextSignTx ==
    \/ SendMetadata
    \/ SendInstruction
    \/ DeviceRejects

SpecSignTx == InitSignTx /\ [][NextSignTx]_vars

\* ------------------------------------- subscribing late to `completion`
\* the pipeline with a caller who subscribes to `completion` only after it
\* has been settled
NextLate ==
    \/ NextSign
    \/ SubscribeCompletionLate

SpecLate == Init /\ [][NextLate]_vars

\* ------------------------------------------- cancelling `completion`
\* the pipeline with a caller who may unsubscribe from `completion`
NextCancel ==
    \/ NextSign
    \/ CancelCompletion

SpecCancel == Init /\ [][NextCancel]_vars

\* ------------------------------------------ the confirmation rendezvous
\* a manual confirmation whose caller may subscribe to the channel late
InitRendezvous ==
    /\ userConfirmation = "manual"
    /\ intent \in PipelineIntents
    /\ InitPipeline
    /\ facade = NoInvocation
    /\ fwdCall = NotInvoked
    /\ watch = NotWatching
    /\ ledger = NoSession
    /\ apduCall = NoCall
    /\ callerSubscribedAt \in {-1, 0}

NextRendezvous ==
    \/ NextSign
    \/ CallerSubscribes

SpecRendezvous == InitRendezvous /\ [][NextRendezvous]_vars

\* ---------------------------------- skip confirmation, nothing fails
\* the statuses the node answers with, in the order of the answers
StatusScript == <<"PENDING", "PENDING", "CONFIRMED">>

\* transaction_status answers received so far
statusAnswers ==
    LET RECURSIVE InFlight(_)
        InFlight(T) ==
            IF T = {} THEN 0
            ELSE LET t == CHOOSE x \in T : TRUE
                 IN  statusPending[t] + InFlight(T \ {t})
    IN  apiCalls["transactionStatus"] - InFlight(TxIDs)

InitHappy ==
    /\ userConfirmation = "skip"
    /\ intent \in {i \in Intents : ~signRejected(i)}
    /\ InitPipeline
    /\ facade = NoInvocation
    /\ fwdCall = NotInvoked
    /\ watch = NotWatching
    /\ ledger = NoSession
    /\ apduCall = NoCall
    /\ callerSubscribedAt = 0

\* every collaborator succeeds, the node answers with StatusScript, and the
\* poll trigger ticks as long as answers are outstanding
NextHappy ==
    \/ IntentEmitted
    \/ BuildSucceeded(FALSE)
    \/ SignSucceeded
    \/ \E tx \in TxIDs : FinalizeSucceeded(tx)
    \/ \E tx \in TxIDs : SubmitSucceeded(tx)
    \/ SubscribePolling
    \/ Tick(Len(StatusScript))
    \/ /\ statusAnswers < Len(StatusScript)
       /\ \E tx \in TxIDs : StatusReceived(tx, StatusScript[statusAnswers + 1])

\* the event loop delivers every outstanding answer and tick
SpecHappy == InitHappy /\ [][NextHappy]_vars /\ WF_vars(NextHappy)

\* ------------------------------------------------- reading the event log
IsErrorEvent(ev) == ev.error # NoError

IsPhaseEvent(ev) == ev.error = NoError

ErrorEvents == SelectSeq(events, IsErrorEvent)

PhaseEvents == SelectSeq(events, IsPhaseEvent)

Emitted(type) ==
    \E k \in DOMAIN events :
        IsPhaseEvent(events[k]) /\ events[k].eventUpdateType = type

TimesEmitted(type) ==
    Cardinality({k \in DOMAIN events :
        IsPhaseEvent(events[k]) /\ events[k].eventUpdateType = type})

PhaseOrder ==
    <<"INITIATED", "BUILT_FROM_INTENT", "ASKED_FOR_CONFIRMATION", "CONFIRMED",
      "SIGNED", "FINALIZED", "SUBMITTED", "UPDATE_OF_STATUS_OF_PENDING_TX",
      "COMPLETED">>

Rank(type) == CHOOSE r \in DOMAIN PhaseOrder : PhaseOrder[r] = type

\* p, the phase events in order, follow PhaseOrder from INITIATED or from
\* BUILT_FROM_INTENT without a gap, only the status update repeating
ContiguousPrefix(p) ==
    /\ p # <<>> => Rank(p[1].eventUpdateType) \in {1, 2}
    /\ \A k \in 1..(Len(p) - 1) :
           \/ Rank(p[k + 1].eventUpdateType) = Rank(p[k].eventUpdateType) + 1
           \/ /\ p[k].eventUpdateType = "UPDATE_OF_STATUS_OF_PENDING_TX"
              /\ p[k + 1].eventUpdateType = "UPDATE_OF_STATUS_OF_PENDING_TX"

CompletionFailedWith(e) ==
    completionOut = <<[kind |-> "error", txID |-> "none", error |-> e]>>

CompletionYielded(tx) ==
    completionOut = <<[kind |-> "next", txID |-> tx, error |-> NoError],
                      [kind |-> "complete", txID |-> "none", error |-> NoError]>>

\* ------------------------------------------------------------------ C1
\* C1: the phase tags emitted on `events` are a contiguous prefix of
\* [INITIATED?, BUILT_FROM_INTENT, ASKED_FOR_CONFIRMATION, CONFIRMED, SIGNED,
\* FINALIZED, SUBMITTED, UPDATE_OF_STATUS_OF_PENDING_TX*, COMPLETED], at most
\* one error event is emitted and nothing follows it; no phase but the status
\* update is emitted twice, none out of order, whatever the interleaving of
\* node responses, confirm() calls and poll ticks.
C1_PhaseSequence ==
    /\ ContiguousPrefix(PhaseEvents)
    /\ Len(ErrorEvents) <= 1
    /\ \A k \in DOMAIN events : IsErrorEvent(events[k]) => k = Len(events)

\* a second confirm() has been answered by a second CONFIRMED event
C1_RepeatedPhase == TimesEmitted("CONFIRMED") > 1

\* ------------------------------------------------------------------ C2
\* C2: any stage failure (build_transaction, sign, finalize_transaction,
\* submit_signed_transaction or a transaction_status poll) is reported twice:
\* exactly one terminal error event is on `events`, and `completion` has
\* failed with that same error.
StageFaults == {"build_transaction", "sign", "finalize_transaction",
                "submit_signed_transaction", "transaction_status"}

C2_ReportedTwice ==
    (\E k \in DOMAIN faults : faults[k].stage \in StageFaults)
        => /\ Len(ErrorEvents) = 1
           /\ CompletionFailedWith(ErrorEvents[1].error)

\* a status request has failed and nothing was reported
C2_SilentStatusFailure ==
    /\ \E k \in DOMAIN faults : faults[k].stage = "transaction_status"
    /\ ErrorEvents = <<>>
    /\ completionOut = <<>>

\* ------------------------------------------------------------------ C4
\* C4: with a manual confirmation the pipeline does not advance past
\* ASKED_FOR_CONFIRMATION before confirm() is invoked: while confirm() has not
\* been called no CONFIRMED event is emitted and sign, finalize_transaction
\* and submit_signed_transaction are not invoked; once it has been called the
\* sequence continues with CONFIRMED, as in the auto-confirmed case.
C4_WaitsForConfirm ==
    userConfirmation = "manual"
        => /\ confirms = 0
               => /\ ~Emitted("CONFIRMED")
                  /\ signArgs = <<>>
                  /\ apiCalls["finalizeTransaction"] = 0
                  /\ apiCalls["submitSignedTransaction"] = 0
           /\ confirms > 0
               => /\ Len(events) >= 4
                  /\ events[3] = Event("ASKED_FOR_CONFIRMATION", "none", "none")
                  /\ events[4] = Event("CONFIRMED", "none", "none")

\* asked, polling, ticks arriving, and the caller has not confirmed yet
C4_Waiting ==
    /\ userConfirmation = "manual"
    /\ confirmOffered
    /\ confirms = 0
    /\ tickSeen
    /\ events[Len(events)] = Event("ASKED_FOR_CONFIRMATION", "none", "none")

\* ------------------------------------------------------------------ C5
\* C5: confirm() is idempotent: a second or later call of confirm() is
\* ignored, it causes no additional CONFIRMED event and no additional
\* invocation of sign, finalize_transaction or submit_signed_transaction.
C5_ConfirmIdempotent ==
    [][(confirms >= 1 /\ confirms' > confirms)
          => (events' = events /\ signArgs' = signArgs /\ apiCalls' = apiCalls)]_vars

\* ------------------------------------------------------------------ C6
\* C6: when build_transaction fails with message m, exactly one error event
\* is emitted, the BuildTxFromIntent error with message m and in_phase
\* BUILT_FROM_INTENT; `completion` fails; no BUILT_FROM_INTENT,
\* ASKED_FOR_CONFIRMATION or later event is emitted, and the confirmation
\* channel, sign, finalize_transaction and submit_signed_transaction are
\* never invoked.
C6_BuildFailure ==
    \A k \in DOMAIN faults :
        faults[k].stage = "build_transaction"
            => LET e == buildTxFromIntentErr(faults[k].message)
               IN  /\ e.message = faults[k].message
                   /\ events = <<Event("INITIATED", "none", "none"),
                                 [eventUpdateType |-> "BUILT_FROM_INTENT",
                                  txID |-> "none", status |-> "none",
                                  error |-> e]>>
                   /\ CompletionFailedWith(e)
                   /\ ~confirmOffered
                   /\ confirms = 0
                   /\ signArgs = <<>>
                   /\ apiCalls["finalizeTransaction"] = 0
                   /\ apiCalls["submitSignedTransaction"] = 0
                   /\ apiCalls["transactionStatus"] = 0

\* the build was rejected with "intent invalid" and poll ticks went by
C6_BuildRejected ==
    /\ faults = <<Fault("build_transaction", "intent invalid")>>
    /\ tickSeen

\* ------------------------------------------------------------------ C7
\* C7: the in_phase of a terminal error event is the tag of the phase that
\* was running when the error was observed: a failure of the signing step
\* (sign failing, or the multiple-non-xrd-RRI rejection) is not reported with
\* FINALIZED, the tag of finalize; a finalize failure is reported with
\* FINALIZED and a submit failure with SUBMITTED.
C7_InPhaseIsCurrentPhase ==
    (Len(faults) = 1 /\ ErrorEvents # <<>>)
        => LET stage == faults[1].stage
               inPhase == ErrorEvents[1].eventUpdateType
           IN  /\ stage = "sign" => inPhase # "FINALIZED"
               /\ stage = "finalize_transaction" => inPhase = "FINALIZED"
               /\ stage = "submit_signed_transaction" => inPhase = "SUBMITTED"

\* ------------------------------------------------------------------ C8
\* the distinct resource names other than "xrd" among the TOKEN_TRANSFER
\* actions of intent i
DistinctNonXrdNames(i) ==
    {i[k].rri : k \in {j \in DOMAIN i :
                          i[j].type = "TOKEN_TRANSFER" /\ i[j].rri # "xrd"}}

\* C8: account.sign is invoked only when the TOKEN_TRANSFER actions of the
\* intent hold at most one distinct resource name other than "xrd": with two
\* or more, signing fails locally and sign is never called; with exactly one
\* (however often repeated) sign receives that name; with none sign receives
\* no HRP. Stake, unstake and xrd transfers do not count.
C8_SignOnlySingleHrp ==
    LET names == DistinctNonXrdNames(intent)
    IN  /\ Cardinality(names) >= 2 => signArgs = <<>>
        /\ \A k \in DOMAIN signArgs :
               /\ Cardinality(names) = 1 => signArgs[k] \in names
               /\ Cardinality(names) = 0 => signArgs[k] = "undefined"
        /\ (Emitted("CONFIRMED") /\ Cardinality(names) <= 1)
               => Len(signArgs) >= 1

\* two transfers of the same non-xrd token: sign was called with its name
C8_RepeatedNameSigned ==
    /\ intent = <<Transfer("foo"), Transfer("foo")>>
    /\ signArgs = <<"foo">>
    /\ Emitted("SIGNED")

\* ------------------------------------------------------------------ C9
MultipleRRIsReported ==
    \E k \in DOMAIN events : events[k].error = PlainError(MultipleRRIsMsg)

\* C9 as stated: for an intent whose transfers use two distinct non-xrd
\* names the error is emitted before any node call and before any device
\* call: no build_transaction or other node request has been issued when
\* the error event appears.
C9_BeforeAnyNodeCall ==
    MultipleRRIsReported
        => /\ signArgs = <<>>
           /\ \A op \in Ops : apiCalls[op] = 0

\* C9 amended: for such an intent the error is emitted right after
\* CONFIRMED, that is after build_transaction was issued once and answered
\* and the transaction confirmed, and before any device call and any other
\* node call: sign, finalize_transaction, submit_signed_transaction and
\* transaction_status are never invoked.
C9_BeforeDeviceCall ==
    Cardinality(DistinctNonXrdNames(intent)) >= 2
        => /\ signArgs = <<>>
           /\ apiCalls["finalizeTransaction"] = 0
           /\ apiCalls["submitSignedTransaction"] = 0
           /\ apiCalls["transactionStatus"] = 0
           /\ Emitted("CONFIRMED")
                 => /\ MultipleRRIsReported
                    /\ Len(events) = 5
                    /\ IsErrorEvent(events[5])
                    /\ events[4] = Event("CONFIRMED", "none", "none")
                    /\ events[2] = Event("BUILT_FROM_INTENT", "none", "none")
                    /\ apiCalls["buildTransaction"] = 1

\* transfers of "foo" and "bar": the error has been reported
C9_FooBarRejected ==
    /\ intent = <<Transfer("foo"), Transfer("bar")>>
    /\ MultipleRRIsReported
    /\ CompletionFailedWith(PlainError(MultipleRRIsMsg))

\* ----------------------------------------------------------------- C10
\* C10: on the first observed CONFIRMED status the pipeline emits
\* UPDATE_OF_STATUS_OF_PENDING_TX(CONFIRMED) then COMPLETED, `completion`
\* yields the txID exactly once and completes, and all subscriptions are torn
\* down: after COMPLETED no transaction_status request is issued and no
\* tracking event is emitted, however many poll ticks follow.
C10_CompletedIsFinal ==
    /\ [](Emitted("COMPLETED")
            => \E k \in DOMAIN events :
                  /\ k > 1
                  /\ events[k].eventUpdateType = "COMPLETED"
                  /\ events[k - 1] = Event("UPDATE_OF_STATUS_OF_PENDING_TX",
                                           events[k].txID, "CONFIRMED")
                  /\ CompletionYielded(events[k].txID))
    /\ [][Emitted("COMPLETED")
            => (events' = events /\ apiCalls' = apiCalls)]_vars

\* an event was tracked after COMPLETED
C10_EventAfterCompleted ==
    /\ Emitted("COMPLETED")
    /\ events[Len(events)].eventUpdateType # "COMPLETED"

\* ------------------------------------------------------------------ C3
HappyEvents(tx) ==
    <<Event("INITIATED", "none", "none"),
      Event("BUILT_FROM_INTENT", "none", "none"),
      Event("ASKED_FOR_CONFIRMATION", "none", "none"),
      Event("CONFIRMED", "none", "none"),
      Event("SIGNED", "none", "none"),
      Event("FINALIZED", tx, "none"),
      Event("SUBMITTED", tx, "none"),
      Event("UPDATE_OF_STATUS_OF_PENDING_TX", tx, "PENDING"),
      Event("UPDATE_OF_STATUS_OF_PENDING_TX", tx, "CONFIRMED"),
      Event("COMPLETED", tx, "CONFIRMED")>>

\* C3: with user_confirmation = skip, when build, sign, finalize and submit
\* succeed and the status answers are [PENDING, PENDING, CONFIRMED] while
\* poll ticks keep arriving, the pipeline eventually emits COMPLETED and
\* `completion` yields the txID; the events are then exactly INITIATED,
\* BUILT_FROM_INTENT, ASKED_FOR_CONFIRMATION, CONFIRMED, SIGNED, FINALIZED,
\* SUBMITTED, UPDATE_OF_STATUS_OF_PENDING_TX(PENDING),
\* UPDATE_OF_STATUS_OF_PENDING_TX(CONFIRMED), COMPLETED.
C3_HappyPathCompletes ==
    <>(\E tx \in TxIDs : events = HappyEvents(tx) /\ CompletionYielded(tx))

\* ----------------------------------------------------------------- C11
\* the position of the status update carrying FAILED, 0 when there is none
FailedUpdateAt ==
    IF \E k \in DOMAIN events :
          /\ events[k].eventUpdateType = "UPDATE_OF_STATUS_OF_PENDING_TX"
          /\ events[k].status = "FAILED"
       THEN CHOOSE k \in DOMAIN events :
               /\ events[k].eventUpdateType = "UPDATE_OF_STATUS_OF_PENDING_TX"
               /\ events[k].status = "FAILED"
       ELSE 0

\* C11: on the first observed FAILED status the pipeline emits a terminal
\* error event with in_phase UPDATE_OF_STATUS_OF_PENDING_TX, `completion`
\* fails with that error, COMPLETED is never emitted, and the subscriptions
\* are torn down: no transaction_status request is issued on later ticks.
C11_FailedIsTerminal ==
    /\ [](FailedUpdateAt > 0
            => LET k == FailedUpdateAt
                   e == PlainError(StatusFailedMsg(events[k].txID))
               IN  /\ Len(events) > k
                   /\ events[k + 1] =
                          ErrorEvent(e, "UPDATE_OF_STATUS_OF_PENDING_TX")
                   /\ CompletionFailedWith(e)
                   /\ ~Emitted("COMPLETED")
                   /\ pollState = "dead")
    /\ [][FailedUpdateAt > 0
            => apiCalls'["transactionStatus"] = apiCalls["transactionStatus"]]_vars

\* FAILED was observed, but `completion` had already failed with the error of
\* a second signing
C11_FailedAfterSignError ==
    /\ FailedUpdateAt > 0
    /\ Len(ErrorEvents) = 2
    /\ CompletionFailedWith(ErrorEvents[1].error)
    /\ ErrorEvents[1].eventUpdateType = "FINALIZED"

\* ----------------------------------------------------------------- C12
IsStatusUpdate(ev) ==
    IsPhaseEvent(ev) /\ ev.eventUpdateType = "UPDATE_OF_STATUS_OF_PENDING_TX"

\* the statuses of the UPDATE_OF_STATUS_OF_PENDING_TX events, in order
UpdateStatuses ==
    LET ups == SelectSeq(events, IsStatusUpdate)
    IN  [k \in 1..Len(ups) |-> ups[k].status]

\* C12: the statuses carried by the UPDATE_OF_STATUS_OF_PENDING_TX events are
\* the status responses the polling loop received with consecutive equal ones
\* removed; no two consecutive such events carry the same status.
C12_StatusDeduplicated ==
    /\ UpdateStatuses = statusLog
    /\ \A k \in 1..(Len(UpdateStatuses) - 1) :
           UpdateStatuses[k] # UpdateStatuses[k + 1]

\* two status requests were answered, both with PENDING, and PENDING was
\* reported once
C12_DuplicateSuppressed ==
    /\ apiCalls["transactionStatus"] = 2
    /\ \A tx \in TxIDs : statusPending[tx] = 0
    /\ ~StatusRequestHasFailed
    /\ pollState = "live"
    /\ UpdateStatuses = <<"PENDING">>

\* ----------------------------------------------------------------- C13
\* C13: a status request that fails on one poll tick is not terminal: the
\* pipeline keeps polling on later ticks (unless a CONFIRMED or FAILED status
\* has ended it) and can still complete from a later status response.
C13_KeepsPolling ==
    StatusRequestHasFailed
        => \/ pollState = "live"
           \/ Emitted("COMPLETED")
           \/ FailedUpdateAt > 0

\* a status request failed after SUBMITTED: polling has ended, nothing is
\* reported and `completion` has not settled
C13_PollingStopped ==
    /\ StatusRequestHasFailed
    /\ events[Len(events)].eventUpdateType = "SUBMITTED"
    /\ pollState = "dead"
    /\ completionOut = <<>>

\* ----------------------------------------------------------------- C14
\* C14: no retries: once an error event has been emitted the pipeline
\* invokes none of build_transaction, sign, finalize_transaction,
\* submit_signed_transaction and transaction_status again.
C14_NoRetries ==
    [][ErrorEvents # <<>>
          => (apiCalls' = apiCalls /\ signArgs' = signArgs)]_vars

\* account.sign was invoked once more after finalize_transaction had failed
C14_SignedAfterFailure ==
    /\ Len(faults) = 1
    /\ faults[1].stage = "finalize_transaction"
    /\ Len(signArgs) = 2
    /\ IsErrorEvent(events[Len(events) - 1])
    /\ events[Len(events)] = Event("CONFIRMED", "none", "none")

\* ----------------------------------------------------------------- C15
\* C15: the `events` output is replayable: whenever a subscriber subscribes,
\* also after the terminal event, it has received every tracking event
\* emitted so far in the original order, followed by the later ones; two
\* subscribers observe the same sequence.
C15_EventsReplayed ==
    \A o \in Observers :
        observers[o].subscribed
            => /\ observers[o].received = events
               /\ \A u \in Observers :
                      observers[u].subscribed
                          => observers[u].received = observers[o].received

\* one subscribed before anything was tracked, the other after COMPLETED
C15_LateSubscriber ==
    /\ observers["first"].subscribed
    /\ observers["first"].replayed = 0
    /\ observers["second"].subscribed
    /\ Emitted("COMPLETED")
    /\ observers["second"].replayed = Len(events)

C17_CancelStopsPipeline ==
    [][completionCancelledAt >= 0
          => (apiCalls' = apiCalls /\ events' = events)]_vars

\* `completion` was cancelled right after SUBMITTED; the status was still
\* requested and the transaction tracked to COMPLETED
C17_CompletedAfterCancel ==
    /\ completionCancelledAt >= 1
    /\ events[completionCancelledAt].eventUpdateType = "SUBMITTED"
    /\ apiCalls["transactionStatus"] > 0
    /\ Emitted("COMPLETED")

\* ----------------------------------------------------------------- C18
\* C18: the polling stream is multicast: the tracker and the two watchers
\* share one polling subscription, so each value of (poll tick, pending
\* transaction) causes exactly one transaction_status request, not one per
\* subscriber.
C18_OneRequestPerCombination ==
    apiCalls["transactionStatus"] = combined

\* a pending transaction and two ticks on it: two requests
C18_TwoTicksTwoRequests ==
    /\ combined = 2
    /\ apiCalls["transactionStatus"] = 2
    /\ TimesEmitted("SUBMITTED") = 1

\* ----------------------------------------------------------------- C19
\* the domain tag of each node operation
OwnErrorKind(op) ==
    CASE op = "networkId" -> "NetworkId"
      [] op = "tokenBalancesForAddress" -> "TokenBalances"
      [] op = "transactionHistory" -> "TransactionHistory"
      [] op = "nativeToken" -> "NativeToken"
      [] op = "tokenInfo" -> "TokenInfo"
      [] op = "stakesForAddress" -> "StakesForAddress"
      [] op = "unstakesForAddress" -> "UnstakesForAddress"
      [] op = "validators" -> "Validators"
      [] op = "lookupValidator" -> "LookupValidator"
      [] op = "lookupTransaction" -> "LookupTransaction"
      [] op = "transactionStatus" -> "TransactionStatus"
      [] op = "NetworkTransactionThroughput" -> "NetworkTxThroughput"
      [] op = "NetworkTransactionDemand" -> "NetworkTxDemand"
      [] op = "buildTransaction" -> "BuildTxFromIntent"
      [] op = "finalizeTransaction" -> "FinalizeTx"
      [] op = "submitSignedTransaction" -> "SubmitSignedTx"

\* the notifications of the underlying call handled so far, completions of
\* single calls left out
FacadeHandled ==
    SelectSeq(SubSeq(facade.script, 1, facade.pos),
              LAMBDA n : n.kind # "complete")

\* C19: every operation of the node facade yields at most one value per
\* invocation; when the underlying call fails, the failure is not suppressed
\* but re-raised as that operation's own domain-tagged error carrying the
\* underlying message unchanged.
C19_SingleValueOrOwnError ==
    facade.op # "none"
        => /\ Cardinality({k \in DOMAIN facade.out :
                              facade.out[k].kind = "next"}) <= 1
           /\ (FacadeHandled # <<>> /\ FacadeHandled[1].kind = "error")
                 => facade.out =
                        <<[kind |-> "error", value |-> "none",
                           error |-> [category |-> OwnErrorKind(facade.op),
                                      message |-> FacadeHandled[1].error.message]]>>
           /\ (FacadeHandled # <<>> /\ FacadeHandled[1].kind = "next")
                 => facade.out =
                        <<FacadeHandled[1],
                          [kind |-> "complete", value |-> "none",
                           error |-> NoError]>>

\* lookupTransaction failed with "timeout" after an unanswered call completed
C19_LookupFailed ==
    /\ facade.op = "lookupTransaction"
    /\ facade.pos = 2
    /\ facade.script[2].kind = "error"
    /\ facade.script[2].error.message = "timeout"
    /\ facade.done

\* ------------------------------------------------------------------ C20
\* the frame at position k of a session is the one the claim prescribes: the
\* metadata frame at position 1, the frame of instruction k - 1 afterwards
PrescribedFrame(session, k) ==
    LET frame == session.sent[k]
        n == Len(session.instructions)
    IN  /\ frame.ins = "DO_SIGN_TX"
        /\ IF k = 1
              THEN frame.p1 = 77
              ELSE /\ frame.p1 = 73
                   /\ frame.data = session.instructions[k - 1]
                   /\ frame.p2 = (IF k - 1 = n THEN 1 ELSE 0)

\* C20: the frames sent during a SIGN_TX session of n instructions are, in
\* order, one metadata frame (ins DO_SIGN_TX, p1 0x4D) and then the frames of
\* the instructions in producer order (ins DO_SIGN_TX, p1 0x49, data the
\* bytes of the instruction, p2 0x01 on the n-th and 0x00 on the earlier
\* ones); never more than n + 1 frames are sent, and a session that finished
\* has sent exactly n + 1
C20_FramesInStrictOrder ==
    /\ Len(ledger.sent) <= Len(ledger.instructions) + 1
    /\ \A k \in 1..Len(ledger.sent) : PrescribedFrame(ledger, k)
    /\ ledger.state = "done" =>
           Len(ledger.sent) = Len(ledger.instructions) + 1
    /\ ledger.state = "streaming" => ledger.sent # <<>>

\* a session of the two instructions 01 02 and 03 with HRP "foo" has finished
C20_TwoInstructionsStreamed ==
    /\ ledger.state = "done"
    /\ ledger.instructions = <<(<<1, 2>>), (<<3>>)>>
    /\ ledger.hrp = <<102, 111, 111>>
    /\ Len(ledger.sent) = 3
    /\ ledger.sent[2].p2 = 0
    /\ ledger.sent[3].p2 = 1

\* ------------------------------------------------------------------ C21
\* the call of a builder has returned a frame
FrameBuilt == apduCall.done /\ ~apduCall.result.thrown

\* C21: every frame a builder of RadixAPDU returns has cla = 0xAA, p1 and p2
\* between 0 and 255, the expected status codes {SW_OK} and at most 255 bytes
\* of data, whatever input the builder accepted.
C21_FrameWithinLimits ==
    FrameBuilt =>
        LET frame == apduCall.result.value
        IN  /\ frame.cla = 170
            /\ frame.p1 \in 0..255
            /\ frame.p2 \in 0..255
            /\ frame.requiredResponseStatusCodeFromDevice = {"SW_OK"}
            /\ Len(frame.data) <= 255

\* signTX.stream returned a frame for an instruction of 256 bytes
C21_OversizedInstructionFrame ==
    /\ FrameBuilt
    /\ apduCall.builder = "signTX.stream"
    /\ Len(apduCall.input.instructionBytes) = 256
    /\ Len(apduCall.result.value.data) = 256

\* ------------------------------------------------------------------ C22
\* the builders that take a path
PathBuilders ==
    {"getPublicKey", "doKeyExchange", "doSignHash", "signTX.initialSetup"}

PathCallDone == apduCall.done /\ apduCall.builder \in PathBuilders

\* the coin type the encoding demands
CoinTypeAccepted(path) ==
    path.coinType.value = 536 /\ path.coinType.isHardened

\* bytes is the count of the components of path in one byte followed by one
\* group of four bytes per component, the group read as a big-endian number
\* being the component's index: its value, plus 2^31 when it is hardened
EncodesPath(bytes, path) ==
    LET n == Len(path.pathComponents)
    IN  /\ Len(bytes) = 1 + 4 * n
        /\ bytes[1] = n
        /\ \A i \in 1..n :
              LET c == path.pathComponents[i]
                  g == SubSeq(bytes, 4 * i - 2, 4 * i + 1)
              IN  /\ \A k \in 1..4 : g[k] \in 0..255
                  /\ (g[1] >= 128) = c.isHardened
                  /\ (g[1] % 128) * 16777216 + g[2] * 65536
                         + g[3] * 256 + g[4] = c.value

\* the encoded path is what the data of the frame starts with
EncodedPath(frame, path) ==
    SubSeq(frame.data, 1, 1 + 4 * Len(path.pathComponents))

\* 05 8000002C 80000218 80000000 00000000 00000000
RadixPathBytes ==
    <<5, 128, 0, 0, 44, 128, 0, 2, 24, 128, 0, 0, 0, 0, 0, 0, 0, 0, 0, 0, 0>>

\* 05 80000054 80000218 80000000 00000000 00000000
RadixPathBytesAsStated ==
    <<5, 128, 0, 0, 84, 128, 0, 2, 24, 128, 0, 0, 0, 0, 0, 0, 0, 0, 0, 0, 0>>

PathEncoding(radixPathBytes) ==
    PathCallDone =>
        LET path == apduCall.input.path
            result == apduCall.result
        IN  IF CoinTypeAccepted(path)
               THEN ~result.thrown =>
                      /\ EncodesPath(EncodedPath(result.value, path), path)
                      /\ Len(path.pathComponents) = 5
                            => Len(EncodedPath(result.value, path)) = 21
                      /\ path = RadixPath
                            => EncodedPath(result.value, path) = radixPathBytes
               ELSE result.thrown

\* C22 (amended): for a path whose coin type is 536 and hardened the encoding
\* is one byte holding the component count followed by four bytes per
\* component, the big-endian index of the component with its hardening bit, so
\* five components take 21 bytes and m/44'/536'/0'/0/0 gives
\* 05 8000002C 80000218 80000000 00000000 00000000; for any other coin type
\* the encoding fails and getPublicKey, doKeyExchange, doSignHash and
\* signTX.initialSetup return no frame.
C22_PathEncoding == PathEncoding(RadixPathBytes)

\* C22 as stated: the same, with m/44'/536'/0'/0/0 encoded as
\* 05 80000054 80000218 80000000 00000000 00000000.
C22_PathEncodingAsStated == PathEncoding(RadixPathBytesAsStated)

\* getPublicKey returned the frame of m/44'/536'/0'/0/0
C22_RadixPathEncoded ==
    /\ FrameBuilt
    /\ apduCall.builder = "getPublicKey"
    /\ apduCall.input.path = RadixPath
    /\ apduCall.result.value.data = RadixPathBytes

\* ------------------------------------------------------------------ C23
\* signTX.initialSetup was called with a path it accepts
SetupCallDone ==
    /\ apduCall.done
    /\ apduCall.builder = "signTX.initialSetup"
    /\ CoinTypeAccepted(apduCall.input.path)

\* the bytes of the HRP of the call, none when no HRP is given
HrpBytes ==
    IF "nonNativeTokenRriHRP" \in DOMAIN apduCall.input
       THEN Utf8(apduCall.input.nonNativeTokenRriHRP)
       ELSE <<>>

RECURSIVE BigEndian(_)
\* the number a byte string denotes, most significant byte first
BigEndian(bytes) ==
    IF bytes = <<>> THEN 0
    ELSE 256 * BigEndian(SubSeq(bytes, 1, Len(bytes) - 1)) + bytes[Len(bytes)]

\* data is encode(path), tx_byte_count in four bytes, number_of_instructions
\* in two, hrp_len in one and hrp_len bytes of HRP
MetadataLayout(data, input) ==
    LET m == 1 + 4 * Len(input.path.pathComponents)
    IN  /\ Len(data) = m + 7 + Len(HrpBytes)
        /\ EncodesPath(SubSeq(data, 1, m), input.path)
        /\ BigEndian(SubSeq(data, m + 1, m + 4)) = input.txByteCount
        /\ BigEndian(SubSeq(data, m + 5, m + 6)) = input.numberOfInstructions
        /\ data[m + 7] = Len(HrpBytes)
        /\ SubSeq(data, m + 8, Len(data)) = HrpBytes

\* C23: the SIGN_TX metadata frame has p1 = 0x4D and data = encode(path),
\* u32_be(tx_byte_count), u16_be(number_of_instructions), u8(hrp_len) and the
\* hrp_len bytes of the HRP, with hrp_len = 0 and no HRP bytes when no HRP is
\* given; an HRP longer than 255 makes the builder fail without a frame.
C23_MetadataFrame ==
    SetupCallDone =>
        IF Len(HrpBytes) > 255
           THEN apduCall.result.thrown
           ELSE /\ ~apduCall.result.thrown
                /\ apduCall.result.value.ins = "DO_SIGN_TX"
                /\ apduCall.result.value.p1 = 77
                /\ MetadataLayout(apduCall.result.value.data, apduCall.input)

\* the metadata frame of tx_byte_count 0x100, two instructions and HRP "foo":
\* the path, 00 00 01 00, 00 02, 03, 66 6F 6F
C23_FooMetadataFrame ==
    /\ SetupCallDone
    /\ ~apduCall.result.thrown
    /\ apduCall.result.value.data =
          RadixPathBytes \o <<0, 0, 1, 0, 0, 2, 3, 102, 111, 111>>

\* ------------------------------------------------------------------ C24
\* 0x01 when the caller asks for the display, 0x00 otherwise
DisplayFlag(asked) == IF asked THEN 1 ELSE 0

\* data is encode(path) followed by the length of payload in one byte and
\* payload
PathAndPayload(data, path, payload) ==
    LET m == 1 + 4 * Len(path.pathComponents)
    IN  /\ Len(data) = m + 1 + Len(payload)
        /\ EncodesPath(SubSeq(data, 1, m), path)
        /\ data[m + 1] = Len(payload)
        /\ SubSeq(data, m + 2, Len(data)) = payload

\* C24: GET_PUBLIC_KEY and DO_SIGN_HASH have p1 = 0x01 iff the caller asks
\* for the address to be displayed, DO_KEY_EXCHANGE iff the caller asks for
\* the BIP path and the other party's key to be displayed, p1 = 0x00
\* otherwise, and p2 = 0x00; their data are encode(path), encode(path) with
\* the length-prefixed hash, and encode(path) with the length-prefixed
\* uncompressed public key; GET_VERSION and GET_APP_NAME carry no data and
\* p1 = p2 = 0.
C24_FlagsAndData ==
    FrameBuilt =>
        LET frame == apduCall.result.value
            input == apduCall.input
        IN  CASE apduCall.builder = "getPublicKey" ->
                   /\ frame.ins = "GET_PUBLIC_KEY"
                   /\ frame.p1 = DisplayFlag(input.displayAddress)
                   /\ frame.p2 = 0
                   /\ EncodesPath(frame.data, input.path)
              [] apduCall.builder = "doSignHash" ->
                   /\ frame.ins = "DO_SIGN_HASH"
                   /\ frame.p1 = DisplayFlag(input.displayAddress)
                   /\ frame.p2 = 0
                   /\ PathAndPayload(frame.data, input.path, input.hashToSign)
              [] apduCall.builder = "doKeyExchange" ->
                   /\ frame.ins = "DO_KEY_EXCHANGE"
                   /\ frame.p1 = DisplayFlag(input.displayBIPAndPubKeyOtherParty)
                   /\ frame.p2 = 0
                   /\ Len(input.publicKeyOfOtherParty.uncompressed) = 65
                   /\ PathAndPayload(frame.data, input.path,
                                     input.publicKeyOfOtherParty.uncompressed)
              [] apduCall.builder = "getVersion" ->
                   /\ frame.ins = "GET_VERSION"
                   /\ frame.data = <<>> /\ frame.p1 = 0 /\ frame.p2 = 0
              [] apduCall.builder = "getAppName" ->
                   /\ frame.ins = "GET_APP_NAME"
                   /\ frame.data = <<>> /\ frame.p1 = 0 /\ frame.p2 = 0
              [] OTHER -> TRUE

\* a key exchange with display: p1 is 1 and the data are the 21 bytes of the
\* path, the length 65 and the 65 bytes of the key
C24_KeyExchangeDisplayed ==
    /\ FrameBuilt
    /\ apduCall.builder = "doKeyExchange"
    /\ apduCall.input.displayBIPAndPubKeyOtherParty
    /\ apduCall.result.value.p1 = 1
    /\ Len(apduCall.result.value.data) = 87
    /\ apduCall.result.value.data[22] = 65

\* ------------------------------------------------------------------ C25
\* C25: in the SIGN_TX metadata frame the hrp_len byte equals the number of
\* HRP bytes that follow it, the UTF-8 encoding of the HRP, for every HRP the
\* builder accepts, also one with characters of more than one byte; and the
\* builder accepts no HRP of more than 255 bytes.
C25_HrpLenIsByteCount ==
    SetupCallDone /\ ~apduCall.result.thrown =>
        LET data == apduCall.result.value.data
            m == 1 + 4 * Len(apduCall.input.path.pathComponents)
        IN  /\ data[m + 7] = Len(data) - (m + 7)
            /\ SubSeq(data, m + 8, Len(data)) = HrpBytes
            /\ Len(HrpBytes) <= 255

\* the HRP of the one letter U+00E9: hrp_len is 1 and two bytes follow
C25_TwoByteLetter ==
    /\ SetupCallDone
    /\ ~apduCall.result.thrown
    /\ "nonNativeTokenRriHRP" \in DOMAIN apduCall.input
    /\ apduCall.input.nonNativeTokenRriHRP = <<233>>
    /\ apduCall.result.value.data[28] = 1
    /\ SubSeq(apduCall.result.value.data, 29, 30) = <<195, 169>>

\* ------------------------------------------------------------------ C26
\* the SUBMITTED events, and the txID of the latest of them
SubmittedEvents ==
    SelectSeq(events, LAMBDA ev : IsPhaseEvent(ev)
                                   /\ ev.eventUpdateType = "SUBMITTED")

\* C26: no transaction_status request is made before the transaction has
\* been submitted: requests made or in flight imply a SUBMITTED event, a
\* poll tick before submission causes no node call, and every request
\* carries the txID of the pending transaction that submit returned.
C26_StatusAfterSubmit ==
    /\ [](/\ apiCalls["transactionStatus"] > 0 => SubmittedEvents # <<>>
          /\ \A tx \in TxIDs :
                statusPending[tx] > 0
                    => \E k \in DOMAIN SubmittedEvents :
                          SubmittedEvents[k].txID = tx)
    /\ [][\A tx \in TxIDs :
            statusPending'[tx] > statusPending[tx]
                => /\ SubmittedEvents' # <<>>
                   /\ SubmittedEvents'[Len(SubmittedEvents')].txID = tx]_vars

\* a tick came and a request for the status of the submitted transaction is
\* in flight
C26_RequestInFlight ==
    /\ tickSeen
    /\ SubmittedEvents # <<>>
    /\ statusPending[SubmittedEvents[1].txID] > 0

\* ------------------------------------------------------------------ C27
\* the event ends the transaction: COMPLETED, or an error
IsTerminalEvent(ev) ==
    IsErrorEvent(ev) \/ (IsPhaseEvent(ev) /\ ev.eventUpdateType = "COMPLETED")

\* C27: COMPLETED and an error event exclude each other, after either of them
\* no further tracking event is emitted, and `completion` is settled at most
\* once, with one txID or with one error.
C27_TerminalIsLast ==
    /\ ~(Emitted("COMPLETED") /\ ErrorEvents # <<>>)
    /\ \A k \in DOMAIN events : IsTerminalEvent(events[k]) => k = Len(events)
    /\ \/ completionOut = <<>>
       \/ \E e \in {ev.error : ev \in {events[k] : k \in DOMAIN events}} :
             CompletionFailedWith(e)
       \/ \E tx \in TxIDs : CompletionYielded(tx)

\* an event was tracked after an error event
C27_EventAfterError ==
    \E k \in DOMAIN events : IsErrorEvent(events[k]) /\ k < Len(events)

\* ------------------------------------------------------------------ C28
\* C28: the pending transaction that submit produced is not lost on its way
\* to the polling loop: once SUBMITTED is emitted the loop, unless it has
\* ended, holds the pending transaction of the latest SUBMITTED event, and a
\* poll tick then makes a transaction_status request, also when build, sign,
\* finalize and submit all finished before the polling subscription was made.
C28_PendingTxHandedOver ==
    /\ [](SubmittedEvents # <<>> /\ pollState # "dead"
            => pollTx = SubmittedEvents[Len(SubmittedEvents)].txID)
    /\ [][SubmittedEvents # <<>> /\ Tick(MaxStatusCalls)
            => apiCalls'["transactionStatus"]
                  > apiCalls["transactionStatus"]]_vars

\* SUBMITTED was emitted before the polling subscription was made; the loop
\* is subscribed, a tick has come and no status request has been made
C28_SubmittedBeforePolling ==
    /\ SubmittedEvents # <<>>
    /\ pollState = "live"
    /\ tickSeen
    /\ pollTx = "none"
    /\ apiCalls["transactionStatus"] = 0

\* ------------------------------------------------------------------ C29
\* C29: a subscriber that subscribes to `completion` only after the pipeline
\* has terminated still observes the outcome: the txID when the transaction
\* completed, the error when it failed.
C29_LateSubscriberSeesOutcome ==
    lateCompletion.subscribed =>
        /\ \A tx \in TxIDs :
              CompletionYielded(tx)
                  => \E k \in DOMAIN lateCompletion.received :
                        /\ lateCompletion.received[k].kind = "next"
                        /\ lateCompletion.received[k].txID = tx
        /\ \A k \in DOMAIN completionOut :
              completionOut[k].kind = "error"
                  => lateCompletion.received = <<completionOut[k]>>

\* the transaction completed with txA and the late subscriber was only told
\* that `completion` is complete
C29_OnlyComplete ==
    /\ CompletionYielded("txA")
    /\ lateCompletion.subscribed
    /\ Len(lateCompletion.received) = 1
    /\ lateCompletion.received[1].kind = "complete"

\* ------------------------------------------------------------------ C30
\* C30: one invocation of an operation of the node facade makes exactly one
\* request of the core API, also when a new node or core API is supplied
\* while the request is in flight; an invocation made before any node is
\* connected makes no request until one is.
C30_OneRequestPerInvocation ==
    /\ Len(fwdCall.requests) <= 1
    /\ fwdCall.done => Len(fwdCall.requests) = 1
    /\ fwdCall.invoked /\ fwdCall.apis = 0 => fwdCall.requests = <<>>
    /\ ~fwdCall.invoked => fwdCall.requests = <<>>

\* submitSignedTransaction was invoked once and has made a request of the
\* first core API and, before the answer, one of the second
C30_SubmittedTwice ==
    /\ fwdCall.op = "submitSignedTransaction"
    /\ fwdCall.invoked
    /\ ~fwdCall.done
    /\ fwdCall.requests = <<1, 2>>

\* ------------------------------------------------------------------ C31
\* the requests whose failure is a terminal error of a stage
StageRequests ==
    {"build_transaction", "sign", "finalize_transaction",
     "submit_signed_transaction"}

StageHasFailed == \E k \in DOMAIN faults : faults[k].stage \in StageRequests

StatusHasEnded == Emitted("COMPLETED") \/ FailedUpdateAt > 0

\* C31: after a terminal error in build, sign, finalize or submit the
\* pipeline holds no live subscription: once its subscriptions have been
\* made, the one to the poll trigger is released, as it is after COMPLETED
\* or a FAILED status.
C31_SubscriptionsReleased ==
    /\ StatusHasEnded => pollState = "dead"
    /\ StageHasFailed /\ pollState # "notYet" => pollState = "dead"

\* build_transaction failed and `completion` failed with it, and the poll
\* trigger still delivers its ticks to the pipeline
C31_TicksAfterBuildError ==
    /\ faults # <<>>
    /\ faults[1].stage = "build_transaction"
    /\ completionOut # <<>>
    /\ completionOut[1].kind = "error"
    /\ pollState = "live"
    /\ tickSeen

\* ------------------------------------------------------------------ C32
\* the responses radix.transactionStatus has emitted carry pairwise
\* different statuses when consecutive
NoEqualNeighbours(out) ==
    \A k \in 1..(Len(out) - 1) : out[k].status # out[k + 1].status

\* C32: radix.transactionStatus(txID, trigger) makes one
\* transaction_status(txID) request per trigger tick and emits only status
\* responses whose txID is the requested one, consecutive responses of equal
\* status being suppressed; a response with another txID is never emitted.
C32_OnlyRequestedTxID ==
    /\ watch.calls = watch.ticks
    /\ NoEqualNeighbours(watch.out)
    /\ \A k \in DOMAIN watch.out : watch.out[k].txID = watch.txID

\* the status of txA was asked for once, the node answered about txB, and
\* that answer was emitted
C32_ForeignResponseEmitted ==
    /\ watch.txID = "txA"
    /\ watch.calls = 1
    /\ watch.out = <<[txID |-> "txB", status |-> "CONFIRMED"]>>

====
